---------------------------- MODULE Spec2Model ----------------------------
(***************************************************************************)
(* A model of plox, a tree-walking Lox interpreter written in Python:      *)
(* the environment chain, the scanner, the parser, the interpreter and the *)
(* command-line driver.  Each subsystem has its own specification over the *)
(* shared variables; the variables a subsystem does not use stay idle.     *)
(***************************************************************************)
EXTENDS Integers, Sequences, FiniteSets, TLC

VARIABLES
    envs,       \* heap of Environment objects, addressed 1..Len(envs)
    last,       \* the last Environment operation and what it returned
    sc,         \* the Scanner object: source, tokens, start, current, line
    scanpc,     \* where Scanner.scan_tokens is: "idle", "scanning", "returned"
    HAD_ERROR,  \* Plox.HAD_ERROR
    stderr,     \* the lines Plox.report and Plox.runtime_error printed
    parser,     \* the Parser object: tokens, current
    parsed,     \* what the last call on the Parser returned or raised
    HAD_RUNTIME_ERROR,  \* Plox.HAD_RUNTIME_ERROR
    stdout,     \* the lines printed to sys.stdout
    interp,     \* the Interpreter object: environment, locals
    program,    \* the statements handed to the Resolver and the Interpreter
    history,    \* the calls made on the Interpreter and how each ended
    runpc,      \* where Plox.run is: "idle", "scanned", "parsed", "resolved",
                \* "returned", or "raised" when an exception left it
    job,        \* the local variables of Plox.run and what it did so far
    lines,      \* the number of calls of Plox.run
    inst,       \* a LoxInstance object and what the last get on it returned
    io,         \* a PeekableTextIO object and what the last call on it returned
    main        \* where Plox.run_file or Plox.run_prompt is, and the exit code

envVars == <<envs, last>>
scanVars == <<sc, scanpc>>
ploxVars == <<HAD_ERROR, stderr>>
parseVars == <<parser, parsed>>
runVars == <<HAD_RUNTIME_ERROR, stdout>>
interpVars == <<interp, program, history>>
driverVars == <<runpc, job, lines>>
unitVars == <<inst, io, main>>
vars == <<envs, last, sc, scanpc, HAD_ERROR, stderr, parser, parsed,
          HAD_RUNTIME_ERROR, stdout, interp, program, history, runpc, job, lines,
          inst, io, main>>
\* what each specification leaves alone
notEnv == <<scanVars, ploxVars, parseVars, runVars, interpVars, driverVars, unitVars>>
notScan == <<envVars, parseVars, runVars, interpVars, driverVars, unitVars>>
notParse == <<envVars, scanVars, runVars, interpVars, driverVars, unitVars>>
notInterp == <<last, scanVars, parseVars, driverVars, unitVars>>

(***************************************************************************)
(* Runtime values.  Every value is a record of the same shape so that any  *)
(* two values can be compared: t is the Python type, n the number (or the  *)
(* truth value of a bool), s the string content.                           *)
(***************************************************************************)
Nil == [t |-> "nil", n |-> 0, s |-> ""]
Bool(b) == [t |-> "bool", n |-> IF b THEN 1 ELSE 0, s |-> ""]
Num(x) == [t |-> "num", n |-> x, s |-> ""]
Str(x) == [t |-> "str", n |-> 0, s |-> x]

\* Python's None as an enclosing link
None == 0

\* the element of a one-element set: The({e(x) : x \in {v}}) is e(v) with v
\* computed once
The(S) == CHOOSE x \in S : TRUE

(***************************************************************************)
(* Outcomes of a Python call: a normal return carrying a value, or a       *)
(* raised LoxRuntimeError carrying its message.                            *)
(***************************************************************************)
Returned(v) == [kind |-> "ok", value |-> v, msg |-> ""]
LoxRuntimeError(m) == [kind |-> "err", value |-> Nil, msg |-> m]

(***************************************************************************)
(* plox/environment.py                                                     *)
(***************************************************************************)

\* Environment(enclosing): a fresh object with an empty values dict
Environment(enclosing) == [enclosing |-> enclosing, values |-> <<>>]

\* Environment.define: self.values[name] = value
define(h, e, name, value) ==
    [h EXCEPT ![e].values =
        [k \in (DOMAIN h[e].values) \cup {name} |->
            IF k = name THEN value ELSE h[e].values[k]]]

RECURSIVE get(_, _, _)
\* Environment.get: own dict, else the enclosing environment, else the error
get(h, e, name) ==
    IF name \in DOMAIN h[e].values
    THEN Returned(h[e].values[name])
    ELSE IF h[e].enclosing # None
         THEN get(h, h[e].enclosing, name)
         ELSE LoxRuntimeError("Undefined variable '" \o name \o "'.")

\* a variant of assign that creates the binding in the root on a miss
RECURSIVE assignCreating(_, _, _, _)
assignCreating(h, e, name, value) ==
    IF name \in DOMAIN h[e].values
    THEN [heap |-> [h EXCEPT ![e].values[name] = value], out |-> Returned(Nil)]
    ELSE IF h[e].enclosing # None
         THEN assignCreating(h, h[e].enclosing, name, value)
         ELSE [heap |-> define(h, e, name, value), out |-> Returned(Nil)]

\* a variant of assign that tries the enclosing environments before its own dict
RECURSIVE assignOuterFirst(_, _, _, _)
assignOuterFirst(h, e, name, value) ==
    LET up == IF h[e].enclosing # None
              THEN assignOuterFirst(h, h[e].enclosing, name, value)
              ELSE [heap |-> h,
                    out |-> LoxRuntimeError("Undefined variable '" \o name \o "'.")]
    IN IF up.out.kind = "ok" THEN up
       ELSE IF name \in DOMAIN h[e].values
            THEN [heap |-> [h EXCEPT ![e].values[name] = value],
                  out |-> Returned(Nil)]
            ELSE up

RECURSIVE assign(_, _, _, _)
\* Environment.assign: overwrite in the first environment of the chain that
\* has the name; the heap is returned with the outcome
assign(h, e, name, value) ==
    IF name \in DOMAIN h[e].values
    THEN [heap |-> [h EXCEPT ![e].values[name] = value], out |-> Returned(Nil)]
    ELSE IF h[e].enclosing # None
         THEN assign(h, h[e].enclosing, name, value)
         ELSE [heap |-> h,
               out |-> LoxRuntimeError("Undefined variable '" \o name \o "'.")]

(***************************************************************************)
(* The environment specification: a client builds environments and calls   *)
(* define, get and assign on them (tests/test_environments.py).            *)
(***************************************************************************)
MaxEnvs == 3
EnvNames == {"a", "b"}
EnvValues == {Nil, Num(1)}

NoCall == [op |-> "none", env |-> 0, name |-> "", value |-> Nil,
           out |-> Returned(Nil)]

IdleEnv == envs = <<>> /\ last = NoCall
IdleScan == sc = <<>> /\ scanpc = "idle"
IdlePlox ==
    HAD_ERROR = FALSE /\ stderr = <<>> /\ HAD_RUNTIME_ERROR = FALSE /\ stdout = <<>>
IdleParse == parser = <<>> /\ parsed = <<>>
IdleInterp == interp = <<>> /\ program = <<>> /\ history = <<>>
IdleRun == runpc = "idle" /\ job = <<>> /\ lines = 0
IdleUnit == inst = <<>> /\ io = <<>> /\ main = <<>>

InitEnv ==
    /\ envs = <<Environment(None)>>
    /\ last = NoCall
    /\ IdleScan /\ IdlePlox /\ IdleParse /\ IdleInterp /\ IdleRun /\ IdleUnit

\* inner = Environment(inner): the newest environment is enclosed by a new one
NewEnvironment ==
    /\ Len(envs) < MaxEnvs
    /\ envs' = Append(envs, Environment(Len(envs)))
    /\ last' = NoCall
    /\ UNCHANGED notEnv

CallDefine ==
    \E e \in 1..Len(envs), name \in EnvNames, value \in EnvValues :
        /\ envs' = define(envs, e, name, value)
        /\ last' = [op |-> "define", env |-> e, name |-> name, value |-> value,
                    out |-> Returned(Nil)]
        /\ UNCHANGED notEnv

CallGet ==
    \E e \in 1..Len(envs), name \in EnvNames :
        /\ last' = [op |-> "get", env |-> e, name |-> name, value |-> Nil,
                    out |-> get(envs, e, name)]
        /\ UNCHANGED <<envs, notEnv>>

CallAssign ==
    \E e \in 1..Len(envs), name \in EnvNames, value \in EnvValues :
        LET r == assign(envs, e, name, value) IN
        /\ envs' = r.heap
        /\ last' = [op |-> "assign", env |-> e, name |-> name, value |-> value,
                    out |-> r.out]
        /\ UNCHANGED notEnv

NextEnv == NewEnvironment \/ CallDefine \/ CallGet \/ CallAssign

SpecEnv == InitEnv /\ [][NextEnv]_vars

(***************************************************************************)
(* Claims about the environment chain                                      *)
(***************************************************************************)
RECURSIVE ChainOf(_, _)
\* the environments reached from e by enclosing links, e first
ChainOf(h, e) == IF e = None THEN <<>> ELSE <<e>> \o ChainOf(h, h[e].enclosing)

\* the first environment of e's chain whose dict has the name, None if none has
Nearest(h, e, name) ==
    LET c == ChainOf(h, e)
        D == {i \in DOMAIN c : name \in DOMAIN h[c[i]].values}
    IN IF D = {} THEN None ELSE c[CHOOSE i \in D : \A j \in D : i <= j]

Outermost(h, e) == LET c == ChainOf(h, e) IN c[Len(c)]

Undefined(name) == LoxRuntimeError("Undefined variable '" \o name \o "'.")

GetIsNearest ==
    last.op = "get" =>
        LET near == Nearest(envs, last.env, last.name) IN
        IF near = None
        THEN last.out = Undefined(last.name)
        ELSE last.out = Returned(envs[near].values[last.name])

AssignIsNearest ==
    last'.op = "assign" =>
        LET near == Nearest(envs, last'.env, last'.name) IN
        IF near = None
        THEN last'.out = Undefined(last'.name) /\ envs' = envs
        ELSE /\ last'.out.kind = "ok"
             /\ envs' = [envs EXCEPT ![near].values[last'.name] = last'.value]

\* C5: get returns the value bound in the nearest environment of the chain that
\* defines the name, assign overwrites exactly that binding and no other, and
\* when no environment of the chain defines the name both raise "Undefined
\* variable '<name>'." and assign leaves every environment unchanged.
C5_NearestBinding == [][GetIsNearest' /\ AssignIsNearest]_vars

\* a get through a chain of three that finds the name in the middle environment,
\* shadowing a different value in the outermost one
C5_Witness ==
    /\ last.op = "get" /\ last.env = 3 /\ last.name = "a"
    /\ "a" \notin DOMAIN envs[3].values
    /\ "a" \in DOMAIN envs[2].values /\ "a" \in DOMAIN envs[1].values
    /\ envs[2].values["a"] # envs[1].values["a"]
    /\ last.out = Returned(envs[2].values["a"])

\* the outermost binding of the name survives the step
OuterKept(e, name) ==
    LET o == Outermost(envs, e) IN
    /\ name \in DOMAIN envs'[o].values
    /\ envs'[o].values[name] = envs[o].values[name]

\* C6: in a chain of depth >= 1 whose outermost environment defines n, defining
\* n in the innermost environment and then assigning n through it leaves the
\* outermost binding unchanged, and get(n) on the innermost environment returns
\* the latest inner value.
C6_Shadowing ==
    [][ /\ (/\ last'.op = "define"
            /\ envs[last'.env].enclosing # None
            /\ last'.name \in DOMAIN envs[Outermost(envs, last'.env)].values)
           => /\ OuterKept(last'.env, last'.name)
              /\ get(envs', last'.env, last'.name) = Returned(last'.value)
        /\ (/\ last'.op = "assign"
            /\ envs[last'.env].enclosing # None
            /\ last'.name \in DOMAIN envs[last'.env].values
            /\ last'.name \in DOMAIN envs[Outermost(envs, last'.env)].values)
           => /\ OuterKept(last'.env, last'.name)
              /\ get(envs', last'.env, last'.name) = Returned(last'.value)
      ]_vars

\* an assignment through the innermost of three environments to a name that the
\* outermost environment binds to another value
C6_Witness ==
    /\ last.op = "assign" /\ last.env = 3 /\ last.name = "a"
    /\ "a" \in DOMAIN envs[3].values /\ envs[3].values["a"] = Num(1)
    /\ last.value = Num(1)
    /\ "a" \in DOMAIN envs[1].values /\ envs[1].values["a"] = Nil

(***************************************************************************)
(* plox/cli.py: the error hooks                                            *)
(***************************************************************************)

\* the token argument of Plox.error when it is None
NoToken == [type |-> "none", lexeme |-> "", literal |-> [t |-> "none", n |-> 0, s |-> ""],
            line |-> 0]

\* Plox.error: the line Plox.report prints; every report sets HAD_ERROR
error(line, message, token) ==
    [line |-> line,
     where |-> IF token = NoToken THEN ""
               ELSE IF token.type = "EOF" THEN " at end"
               ELSE " at '" \o token.lexeme \o "'",
     message |-> message]

(***************************************************************************)
(* plox/tokens.py and plox/scanner.py                                      *)
(***************************************************************************)
Token(type, lexeme, literal, line) ==
    [type |-> type, lexeme |-> lexeme, literal |-> literal, line |-> line]

\* the literal of a token that has none (Python None)
NoLiteral == [t |-> "none", n |-> 0, s |-> ""]

Digits == {"0", "1", "2", "3", "4", "5", "6", "7", "8", "9"}
Lower == {"a", "b", "c", "d", "e", "f", "g", "h", "i", "j", "k", "l", "m",
          "n", "o", "p", "q", "r", "s", "t", "u", "v", "w", "x", "y", "z"}
Upper == {"A", "B", "C", "D", "E", "F", "G", "H", "I", "J", "K", "L", "M",
          "N", "O", "P", "Q", "R", "S", "T", "U", "V", "W", "X", "Y", "Z"}

is_digit(char) == char \in Digits
is_alpha(char) == char \in Lower \cup Upper \cup {"_"}

RECURSIVE Join(_)
\* the str made of a sequence of characters
Join(cs) == IF cs = <<>> THEN "" ELSE Head(cs) \o Join(Tail(cs))

\* source[a:b] of a Python str, by 0-based offsets
Slice(source, a, b) == SubSeq(source, a + 1, b)

\* the module-level dict keywords
keywords ==
    [w \in {"and", "class", "else", "false", "fun", "for", "it", "nil", "or",
            "print", "return", "super", "this", "true", "var", "while"} |->
        CASE w = "and" -> "AND" [] w = "class" -> "CLASS" [] w = "else" -> "ELSE"
          [] w = "false" -> "FALSE" [] w = "fun" -> "FUN" [] w = "for" -> "FOR"
          [] w = "it" -> "IT" [] w = "nil" -> "NIL" [] w = "or" -> "OR"
          [] w = "print" -> "PRINT" [] w = "return" -> "RETURN"
          [] w = "super" -> "SUPER" [] w = "this" -> "THIS" [] w = "true" -> "TRUE"
          [] w = "var" -> "VAR" [] w = "while" -> "WHILE"]

\* Scanner(source): the attrs defaults; errs collects the calls of Plox.error
Scanner(source) ==
    [source |-> source, tokens |-> <<>>, start |-> 0, current |-> 0, line |-> 1,
     errs |-> <<>>]

is_at_end(s) == s.current >= Len(s.source)

\* Scanner.peek: "\0" at the end; the model writes that character as "NUL"
peek(s) == IF is_at_end(s) THEN "NUL" ELSE s.source[s.current + 1]

peek_next(s) ==
    IF s.current + 1 >= Len(s.source) THEN "NUL" ELSE s.source[s.current + 2]

\* Scanner.advance, the state part: current += 1
advance(s) == [s EXCEPT !.current = @ + 1]

\* Scanner.match, the returned bool
match(s, char) == ~is_at_end(s) /\ s.source[s.current + 1] = char

\* Scanner.match, the state part
afterMatch(s, char) == IF match(s, char) THEN advance(s) ELSE s

add_token(s, type, literal) ==
    [s EXCEPT !.tokens =
        Append(@, Token(type, Join(Slice(s.source, s.start, s.current)),
                        literal, s.line))]

RECURSIVE skip_comment(_)
\* the comment loop of scan_token: advance up to the newline or the end
skip_comment(s) ==
    IF peek(s) # "\n" /\ ~is_at_end(s) THEN skip_comment(advance(s)) ELSE s

\* a variant of the string loop that does not count the newlines it passes
RECURSIVE string_loop_no_lines(_)
string_loop_no_lines(s) ==
    IF peek(s) # "\"" /\ ~is_at_end(s)
    THEN string_loop_no_lines(advance(s))
    ELSE s

RECURSIVE string_loop(_)
\* the loop of Scanner.string: up to the closing quote, counting newlines
string_loop(s) ==
    IF peek(s) # "\"" /\ ~is_at_end(s)
    THEN string_loop(advance(IF peek(s) = "\n"
                             THEN [s EXCEPT !.line = @ + 1] ELSE s))
    ELSE s

\* Scanner.string
string(s) ==
    LET s1 == string_loop(s) IN
    IF is_at_end(s1)
    THEN [s1 EXCEPT !.errs = Append(@, error(s1.line, "Unterminated string.", NoToken))]
    ELSE LET s2 == advance(s1) IN
         add_token(s2, "STRING",
                   Str(Join(Slice(s2.source, s2.start + 1, s2.current - 1))))

RECURSIVE digits_loop(_)
\* while is_digit(self.peek()): self.advance()
digits_loop(s) == IF is_digit(peek(s)) THEN digits_loop(advance(s)) ELSE s

RECURSIVE DigitsValue(_)
\* the number a sequence of decimal digits writes
DigitsValue(cs) ==
    IF cs = <<>> THEN 0
    ELSE 10 * DigitsValue(SubSeq(cs, 1, Len(cs) - 1))
         + (CHOOSE d \in 0..9 : ToString(d) = cs[Len(cs)])

\* float(text) of digits with an optional fraction: the integer part as n, the
\* digits of the fraction as s
Float(cs) ==
    LET dot == {i \in DOMAIN cs : cs[i] = "."}
        k == IF dot = {} THEN Len(cs) + 1 ELSE CHOOSE i \in dot : TRUE
    IN [t |-> "num", n |-> DigitsValue(SubSeq(cs, 1, k - 1)),
        s |-> Join(SubSeq(cs, k + 1, Len(cs)))]

\* Scanner.number
number(s) ==
    LET s1 == digits_loop(s)
        s2 == IF peek(s1) = "." /\ is_digit(peek_next(s1))
              THEN digits_loop(advance(s1)) ELSE s1
    IN add_token(s2, "NUMBER", Float(Slice(s2.source, s2.start, s2.current)))

RECURSIVE identifier_loop(_)
identifier_loop(s) ==
    IF is_alpha(peek(s)) \/ is_digit(peek(s))
    THEN identifier_loop(advance(s)) ELSE s

\* Scanner.identifier: keywords.get(text, TokenType.IDENTIFIER)
identifier(s) ==
    LET s1 == identifier_loop(s)
        text == Join(Slice(s1.source, s1.start, s1.current))
    IN add_token(s1, IF text \in DOMAIN keywords THEN keywords[text]
                     ELSE "IDENTIFIER", NoLiteral)

\* the characters scan_token discards without a token
Discarded == {"\t", " "}

\* Scanner.scan_token
scan_token(s) ==
    LET c == s.source[s.current + 1]
        s1 == advance(s)
    IN CASE c = "(" -> add_token(s1, "LEFT_PAREN", NoLiteral)
         [] c = ")" -> add_token(s1, "RIGHT_PAREN", NoLiteral)
         [] c = "{" -> add_token(s1, "LEFT_BRACE", NoLiteral)
         [] c = "}" -> add_token(s1, "RIGHT_BRACE", NoLiteral)
         [] c = "," -> add_token(s1, "COMMA", NoLiteral)
         [] c = "." -> add_token(s1, "DOT", NoLiteral)
         [] c = "-" -> add_token(s1, "MINUS", NoLiteral)
         [] c = "+" -> add_token(s1, "PLUS", NoLiteral)
         [] c = ";" -> add_token(s1, "SEMICOLON", NoLiteral)
         [] c = "*" -> add_token(s1, "STAR", NoLiteral)
         [] c = "!" -> add_token(afterMatch(s1, "="),
                         IF match(s1, "=") THEN "BANG_EQUAL" ELSE "BANG", NoLiteral)
         [] c = "=" -> add_token(afterMatch(s1, "="),
                         IF match(s1, "=") THEN "EQUAL_EQUAL" ELSE "EQUAL", NoLiteral)
         [] c = ">" -> add_token(afterMatch(s1, "="),
                         IF match(s1, "=") THEN "GREATER_EQUAL" ELSE "GREATER",
                         NoLiteral)
         [] c = "<" -> add_token(afterMatch(s1, "="),
                         IF match(s1, "=") THEN "LESS_EQUAL" ELSE "LESS", NoLiteral)
         [] c = "/" -> IF match(s1, "/")
                       THEN skip_comment(afterMatch(s1, "/"))
                       ELSE add_token(s1, "SLASH", NoLiteral)
         [] c \in Discarded -> s1
         [] c = "\n" -> [s1 EXCEPT !.line = @ + 1]
         [] c = "\"" -> string(s1)
         [] OTHER ->
              IF is_digit(c) THEN number(s1)
              ELSE IF is_alpha(c) THEN identifier(s1)
              ELSE [s1 EXCEPT !.errs =
                       Append(@, error(s1.line, "Unexpected character.",
                                       NoToken))]

(***************************************************************************)
(* The scanner specification: Scanner(source).scan_tokens() on a source    *)
(* drawn from the short strings over a small alphabet and from a list of   *)
(* words; one step of the model is one pass of the loop of scan_tokens.    *)
(***************************************************************************)
MaxSourceLen == 3
ScanAlphabet == {"(", "!", "=", "/", " ", "\t", "\r", "\n", "\"", "1", ".", "a",
                 "_", "@"}

RECURSIVE Strings(_)
\* the sequences over ScanAlphabet of length at most n
Strings(n) ==
    IF n = 0 THEN {<<>>}
    ELSE LET shorter == Strings(n - 1) IN
         shorter \cup {Append(w, c) : w \in shorter, c \in ScanAlphabet}

ReservedWords ==
    {<<"a","n","d">>, <<"c","l","a","s","s">>, <<"e","l","s","e">>,
     <<"f","a","l","s","e">>, <<"f","u","n">>, <<"f","o","r">>, <<"i","f">>,
     <<"n","i","l">>, <<"o","r">>, <<"p","r","i","n","t">>,
     <<"r","e","t","u","r","n">>, <<"s","u","p","e","r">>, <<"t","h","i","s">>,
     <<"t","r","u","e">>, <<"v","a","r">>, <<"w","h","i","l","e">>}

OtherWords ==
    {<<"i","t">>, <<"i","f","f">>, <<"o","r","1">>, <<"_","o","r">>, <<"x">>,
     <<"F","o","r">>, <<"a","_","1">>, <<"n","i","l","s">>, <<"_">>}

\* a word alone, between spaces, and between parentheses
WordSources ==
    UNION {{w, <<" ">> \o w \o <<" ">>, <<"(">> \o w \o <<")">>} :
           w \in ReservedWords \cup OtherWords}

Sources == Strings(MaxSourceLen) \cup WordSources

InitScan ==
    /\ sc \in {Scanner(source) : source \in Sources}
    /\ scanpc = "scanning"
    /\ IdleEnv /\ IdlePlox /\ IdleParse /\ IdleInterp /\ IdleRun /\ IdleUnit

\* one pass of `while not self.is_at_end`
ScanToken ==
    /\ scanpc = "scanning"
    /\ ~is_at_end(sc)
    /\ LET s == scan_token([sc EXCEPT !.start = sc.current]) IN
       /\ sc' = [s EXCEPT !.errs = <<>>]
       /\ HAD_ERROR' = (HAD_ERROR \/ s.errs # <<>>)
       /\ stderr' = stderr \o s.errs
    /\ UNCHANGED <<scanpc, notScan>>

\* the end of scan_tokens: append the EOF token and return the list
ScanReturn ==
    /\ scanpc = "scanning"
    /\ is_at_end(sc)
    /\ sc' = [sc EXCEPT !.tokens = Append(@, Token("EOF", "", NoLiteral, sc.line))]
    /\ scanpc' = "returned"
    /\ UNCHANGED <<ploxVars, notScan>>

NextScan == ScanToken \/ ScanReturn

SpecScan == InitScan /\ [][NextScan]_vars

(***************************************************************************)
(* plox/expressions.py: the expression nodes.  The classes are declared    *)
(* eq=False, so a node is its own identity; the model gives every node the *)
(* number of its allocation as id.                                         *)
(***************************************************************************)
Literal(id, value) == [k |-> "Literal", id |-> id, value |-> value]
Variable(id, name) == [k |-> "Variable", id |-> id, name |-> name]
Assign(id, name, value) == [k |-> "Assign", id |-> id, name |-> name, value |-> value]
Unary(id, operator, right) ==
    [k |-> "Unary", id |-> id, operator |-> operator, right |-> right]
Binary(id, left, operator, right) ==
    [k |-> "Binary", id |-> id, left |-> left, operator |-> operator, right |-> right]
Logical(id, left, operator, right) ==
    [k |-> "Logical", id |-> id, left |-> left, operator |-> operator, right |-> right]
Grouping(id, expression) == [k |-> "Grouping", id |-> id, expression |-> expression]
Call(id, callee, paren, arguments) ==
    [k |-> "Call", id |-> id, callee |-> callee, paren |-> paren,
     arguments |-> arguments]

\* no expression: what a call that raised leaves
This(id, keyword) == [k |-> "This", id |-> id, keyword |-> keyword]
NoExpr == [k |-> "none"]

(***************************************************************************)
(* plox/parser.py.  A parsing method maps the Parser object to the object  *)
(* afterwards (p), how the call ended (kind: "ok", or "parse_error" for a  *)
(* raised LoxParseError) and the node it returned (expr).                  *)
(***************************************************************************)

\* Parser(tokens); next_id numbers the nodes allocated, errs collects the
\* calls of Plox.error
Parser(tokens) == [tokens |-> tokens, current |-> 0, next_id |-> 1, errs |-> <<>>]

Parsed(p, expr) == [p |-> p, kind |-> "ok", expr |-> expr]
\* the allocation of a node: its id is taken from next_id
Alloc(p) == [p EXCEPT !.next_id = @ + 1]

\* Parser.peek: self.tokens[self.current]
parser_peek(p) == p.tokens[p.current + 1]

\* Parser.previous: self.tokens[self.current - 1]; index -1 is the last token
previous(p) ==
    IF p.current = 0 THEN p.tokens[Len(p.tokens)] ELSE p.tokens[p.current]

parser_is_at_end(p) == parser_peek(p).type = "EOF"

\* Parser.advance, the state part
parser_advance(p) ==
    IF ~parser_is_at_end(p) THEN [p EXCEPT !.current = @ + 1] ELSE p

\* Parser.check
check(p, type) == ~parser_is_at_end(p) /\ parser_peek(p).type = type

\* Parser.match, the returned bool: some type of the list checks
parser_match(p, types) == \E type \in types : check(p, type)

\* Parser.match, the state part
afterParserMatch(p, types) ==
    IF parser_match(p, types) THEN parser_advance(p) ELSE p

\* Parser.error: report through Plox.error, return the exception
parser_error(p, token, message) ==
    [p EXCEPT !.errs = Append(@, error(token.line, message, token))]

\* raise self.error(self.peek(), message)
RaiseParseError(p, message) ==
    [p |-> parser_error(p, parser_peek(p), message), kind |-> "parse_error",
     expr |-> NoExpr]

\* Parser.consume: the advanced parser, or the raised error
consume(p, type, message) ==
    IF check(p, type) THEN Parsed(parser_advance(p), NoExpr)
    ELSE RaiseParseError(p, message)

\* the limit on the arguments of a call
MaxArguments == 255

RECURSIVE expression(_), assignment(_), logic_or(_), logic_or_loop(_, _),
          logic_and(_), logic_and_loop(_, _), equality(_), equality_loop(_, _),
          comparison(_), comparison_loop(_, _), term(_), term_loop(_, _),
          factor(_), factor_loop(_, _), unary(_), call(_), call_loop(_, _),
          arguments_loop(_, _), primary(_)

\* Parser.expression
expression(p) == assignment(p)

\* Parser.assignment
assignment(p) ==
    The({ IF r.kind # "ok" THEN r
          ELSE IF parser_match(r.p, {"EQUAL"})
          THEN LET p1 == parser_advance(r.p)
                   equals == previous(p1)
               IN The({ IF v.kind # "ok" THEN v
                        ELSE IF r.expr.k = "Variable"
                        THEN Parsed(Alloc(v.p),
                                    Assign(v.p.next_id, r.expr.name, v.expr))
                        ELSE Parsed(parser_error(v.p, equals,
                                                 "Invalid assignment target."),
                                    r.expr)
                        : v \in {assignment(p1)} })
          ELSE r
          : r \in {logic_or(p)} })

\* Parser.logic_or
logic_or(p) ==
    The({ IF r.kind # "ok" THEN r ELSE logic_or_loop(r.p, r.expr)
          : r \in {logic_and(p)} })

logic_or_loop(p, expr) ==
    IF parser_match(p, {"OR"})
    THEN LET p1 == parser_advance(p)
             operator == previous(p1)
         IN The({ IF right.kind # "ok" THEN right
                  ELSE logic_or_loop(Alloc(right.p),
                           Logical(right.p.next_id, expr, operator, right.expr))
                  : right \in {logic_and(p1)} })
    ELSE Parsed(p, expr)

\* Parser.logic_and
logic_and(p) ==
    The({ IF r.kind # "ok" THEN r ELSE logic_and_loop(r.p, r.expr)
          : r \in {equality(p)} })

logic_and_loop(p, expr) ==
    IF parser_match(p, {"AND"})
    THEN LET p1 == parser_advance(p)
             operator == previous(p1)
         IN The({ IF right.kind # "ok" THEN right
                  ELSE logic_and_loop(Alloc(right.p),
                           Logical(right.p.next_id, expr, operator, right.expr))
                  : right \in {equality(p1)} })
    ELSE Parsed(p, expr)

\* Parser.equality
equality(p) ==
    The({ IF r.kind # "ok" THEN r ELSE equality_loop(r.p, r.expr)
          : r \in {comparison(p)} })

equality_loop(p, expr) ==
    IF parser_match(p, {"BANG_EQUAL", "EQUAL_EQUAL"})
    THEN LET p1 == parser_advance(p)
             operator == previous(p1)
         IN The({ IF right.kind # "ok" THEN right
                  ELSE equality_loop(Alloc(right.p),
                           Binary(right.p.next_id, expr, operator, right.expr))
                  : right \in {comparison(p1)} })
    ELSE Parsed(p, expr)

\* Parser.comparison
comparison(p) ==
    The({ IF r.kind # "ok" THEN r ELSE comparison_loop(r.p, r.expr)
          : r \in {term(p)} })

comparison_loop(p, expr) ==
    IF parser_match(p, {"LESS", "LESS_EQUAL", "GREATER", "GREATER_EQUAL"})
    THEN LET p1 == parser_advance(p)
             operator == previous(p1)
         IN The({ IF right.kind # "ok" THEN right
                  ELSE comparison_loop(Alloc(right.p),
                           Binary(right.p.next_id, expr, operator, right.expr))
                  : right \in {term(p1)} })
    ELSE Parsed(p, expr)

\* Parser.term
term(p) ==
    The({ IF r.kind # "ok" THEN r ELSE term_loop(r.p, r.expr)
          : r \in {factor(p)} })

\* a variant of the loop of term that takes a whole term as its right operand
RECURSIVE term_loop_right(_, _)
term_loop_right(p, expr) ==
    IF parser_match(p, {"PLUS", "MINUS"})
    THEN LET p1 == parser_advance(p)
             operator == previous(p1)
         IN The({ IF right.kind # "ok" THEN right
                  ELSE Parsed(Alloc(right.p),
                              Binary(right.p.next_id, expr, operator, right.expr))
                  : right \in {term(p1)} })
    ELSE Parsed(p, expr)

term_loop(p, expr) ==
    IF parser_match(p, {"PLUS", "MINUS"})
    THEN LET p1 == parser_advance(p)
             operator == previous(p1)
         IN The({ IF right.kind # "ok" THEN right
                  ELSE term_loop(Alloc(right.p),
                           Binary(right.p.next_id, expr, operator, right.expr))
                  : right \in {factor(p1)} })
    ELSE Parsed(p, expr)

\* Parser.factor
factor(p) ==
    The({ IF r.kind # "ok" THEN r ELSE factor_loop(r.p, r.expr)
          : r \in {unary(p)} })

\* a variant of the loop of factor that takes a whole term as its right operand
RECURSIVE factor_loop_loose(_, _)
factor_loop_loose(p, expr) ==
    IF parser_match(p, {"STAR", "SLASH"})
    THEN LET p1 == parser_advance(p)
             operator == previous(p1)
         IN The({ IF right.kind # "ok" THEN right
                  ELSE factor_loop_loose(Alloc(right.p),
                           Binary(right.p.next_id, expr, operator, right.expr))
                  : right \in {term(p1)} })
    ELSE Parsed(p, expr)

factor_loop(p, expr) ==
    IF parser_match(p, {"STAR", "SLASH"})
    THEN LET p1 == parser_advance(p)
             operator == previous(p1)
         IN The({ IF right.kind # "ok" THEN right
                  ELSE factor_loop(Alloc(right.p),
                           Binary(right.p.next_id, expr, operator, right.expr))
                  : right \in {unary(p1)} })
    ELSE Parsed(p, expr)

\* Parser.unary
unary(p) ==
    IF parser_match(p, {"BANG", "MINUS"})
    THEN LET p1 == parser_advance(p)
             operator == previous(p1)
         IN The({ IF right.kind # "ok" THEN right
                  ELSE Parsed(Alloc(right.p),
                              Unary(right.p.next_id, operator, right.expr))
                  : right \in {unary(p1)} })
    ELSE call(p)

\* Parser.call
call(p) ==
    The({ IF r.kind # "ok" THEN r ELSE call_loop(r.p, r.expr)
          : r \in {primary(p)} })

\* `while self.match(TokenType.LEFT_PAREN)`
call_loop(p, expr) ==
    IF parser_match(p, {"LEFT_PAREN"})
    THEN The({ IF args.kind # "ok"
               THEN [p |-> args.p, kind |-> args.kind, expr |-> NoExpr]
               ELSE LET c == consume(args.p, "RIGHT_PAREN",
                                     "Expect ')' after arguments.")
                    IN IF c.kind # "ok" THEN c
                       ELSE call_loop(Alloc(c.p),
                                Call(c.p.next_id, expr, previous(c.p),
                                     args.arguments))
               : args \in {IF ~check(parser_advance(p), "RIGHT_PAREN")
                           THEN arguments_loop(parser_advance(p), <<>>)
                           ELSE [p |-> parser_advance(p), kind |-> "ok",
                                 arguments |-> <<>>]} })
    ELSE Parsed(p, expr)

\* `while self.match(TokenType.COMMA)`: one expression after every comma
arguments_loop(p, arguments) ==
    IF parser_match(p, {"COMMA"})
    THEN LET p1 == parser_advance(p)
             p2 == IF Len(arguments) >= MaxArguments
                   THEN parser_error(p1, parser_peek(p1),
                                     "Can't have more than 255 arguments.")
                   ELSE p1
         IN The({ IF a.kind # "ok"
                  THEN [p |-> a.p, kind |-> a.kind, arguments |-> arguments]
                  ELSE arguments_loop(a.p, Append(arguments, a.expr))
                  : a \in {expression(p2)} })
    ELSE [p |-> p, kind |-> "ok", arguments |-> arguments]

\* Parser.primary
primary(p) ==
    IF parser_match(p, {"FALSE"})
    THEN Parsed(Alloc(parser_advance(p)), Literal(p.next_id, Bool(FALSE)))
    ELSE IF parser_match(p, {"TRUE"})
    THEN Parsed(Alloc(parser_advance(p)), Literal(p.next_id, Bool(TRUE)))
    ELSE IF parser_match(p, {"NIL"})
    THEN Parsed(Alloc(parser_advance(p)), Literal(p.next_id, Nil))
    ELSE IF parser_match(p, {"NUMBER", "STRING"})
    THEN Parsed(Alloc(parser_advance(p)),
                Literal(p.next_id, previous(parser_advance(p)).literal))
    ELSE IF parser_match(p, {"LEFT_PAREN"})
    THEN The({ IF e.kind # "ok" THEN e
               ELSE LET c == consume(e.p, "RIGHT_PAREN",
                                     "Expect ')' after expression.")
                    IN IF c.kind # "ok" THEN c
                       ELSE Parsed(Alloc(c.p), Grouping(c.p.next_id, e.expr))
               : e \in {expression(parser_advance(p))} })
    ELSE IF parser_match(p, {"IDENTIFIER"})
    THEN Parsed(Alloc(parser_advance(p)),
                Variable(p.next_id, previous(parser_advance(p))))
    ELSE RaiseParseError(p, "Expect expression.")

(***************************************************************************)
(* The parser specification: Parser(tokens).expression() on a token list   *)
(* that ends with an end-of-file token (tests/test_expression_parsing.py). *)
(* The lists are the operator chains  a op b op c ...,  the prefix chains  *)
(* u u ... x  and every short list over a small set of tokens.             *)
(***************************************************************************)
MaxOperators == 2
MaxPrefix == 3
MaxTokens == 3
MaxCallArguments == 2

Tok(type, lexeme) == Token(type, lexeme, NoLiteral, 1)
Eof == Token("EOF", "", NoLiteral, 1)
NumberTok == Token("NUMBER", "1", Num(1), 1)

OperandNames == <<"a", "b", "c", "d", "e", "f">>
Operand(i) == Tok("IDENTIFIER", OperandNames[i])

EqualityOps == {Tok("BANG_EQUAL", "!="), Tok("EQUAL_EQUAL", "==")}
ComparisonOps == {Tok("LESS", "<"), Tok("LESS_EQUAL", "<="), Tok("GREATER", ">"),
                  Tok("GREATER_EQUAL", ">=")}
TermOps == {Tok("PLUS", "+"), Tok("MINUS", "-")}
FactorOps == {Tok("STAR", "*"), Tok("SLASH", "/")}
AndOps == {Tok("AND", "and")}
OrOps == {Tok("OR", "or")}
AssignOps == {Tok("EQUAL", "=")}
PrefixOps == {Tok("BANG", "!"), Tok("MINUS", "-")}
InfixOps == EqualityOps \cup ComparisonOps \cup TermOps \cup FactorOps \cup AndOps
            \cup OrOps \cup AssignOps

RECURSIVE OperatorChains(_)
\* a op b op c ... with n operators
OperatorChains(n) ==
    IF n = 0 THEN {<<Operand(1)>>}
    ELSE {c \o <<op, Operand(n + 1)>> : c \in OperatorChains(n - 1), op \in InfixOps}

RECURSIVE PrefixChains(_)
\* u u ... a with n prefix operators
PrefixChains(n) ==
    IF n = 0 THEN {<<Operand(1)>>}
    ELSE {<<u>> \o c : u \in PrefixOps, c \in PrefixChains(n - 1)}

\* u a op b,  a op u b  and  u a op u b
UnaryOperands ==
    UNION {{<<u1, Operand(1), op, Operand(2)>>, <<Operand(1), op, u2, Operand(2)>>,
            <<u1, Operand(1), op, u2, Operand(2)>>}
           : u1 \in PrefixOps, u2 \in PrefixOps, op \in InfixOps}

LeftParen == Tok("LEFT_PAREN", "(")
RightParen == Tok("RIGHT_PAREN", ")")
Comma == Tok("COMMA", ",")

RECURSIVE ArgumentTokens(_, _)
\* the tokens of the n arguments  x , y , ...  whose first operand is Operand(i)
ArgumentTokens(i, n) ==
    IF n = 0 THEN <<>>
    ELSE IF n = 1 THEN <<Operand(i)>>
    ELSE <<Operand(i), Comma>> \o ArgumentTokens(i + 1, n - 1)

\* a ( b , c , ... ) with n arguments
CallTokens(n) == <<Operand(1), LeftParen>> \o ArgumentTokens(2, n) \o <<RightParen>>

\* a ( b ) ( c ),  a ( ) ( )  and  a ( ) ( b )
ChainedCalls ==
    {<<Operand(1), LeftParen, Operand(2), RightParen, LeftParen, Operand(3), RightParen>>,
     <<Operand(1), LeftParen, RightParen, LeftParen, RightParen>>,
     <<Operand(1), LeftParen, RightParen, LeftParen, Operand(2), RightParen>>}

ShortAlphabet == {Operand(1), NumberTok, Tok("PLUS", "+"), Tok("EQUAL", "="),
                  Tok("LEFT_PAREN", "("), Tok("RIGHT_PAREN", ")"),
                  Tok("COMMA", ","), Tok("BANG", "!")}

RECURSIVE ShortLists(_)
ShortLists(n) ==
    IF n = 0 THEN {<<>>}
    ELSE LET shorter == ShortLists(n - 1) IN
         shorter \cup {Append(w, t) : w \in shorter, t \in ShortAlphabet}

TokenLists ==
    {ts \o <<Eof>> :
        ts \in UNION {OperatorChains(n) : n \in 0..MaxOperators}
               \cup UNION {PrefixChains(n) : n \in 0..MaxPrefix}
               \cup UnaryOperands
               \cup {CallTokens(n) : n \in 0..MaxCallArguments}
               \cup ChainedCalls
               \cup ShortLists(MaxTokens)}

InitParse ==
    /\ parser \in {Parser(tokens) : tokens \in TokenLists}
    /\ parsed = <<>>
    /\ IdleEnv /\ IdleScan /\ IdlePlox /\ IdleInterp /\ IdleRun /\ IdleUnit

\* Parser(tokens).expression(); the errors it reported go through Plox.report
CallExpression ==
    /\ parsed = <<>>
    /\ LET r == expression(parser) IN
       /\ parser' = [r.p EXCEPT !.errs = <<>>]
       /\ parsed' = [kind |-> r.kind, expr |-> r.expr]
       /\ HAD_ERROR' = (HAD_ERROR \/ r.p.errs # <<>>)
       /\ stderr' = stderr \o r.p.errs
    /\ UNCHANGED notParse

NextParse == CallExpression

SpecParse == InitParse /\ [][NextParse]_vars

(***************************************************************************)
(* plox/statements.py: the statement nodes                                 *)
(***************************************************************************)
Block(statements) == [k |-> "Block", statements |-> statements]
Class(name, superclass, methods) ==
    [k |-> "Class", name |-> name, superclass |-> superclass, methods |-> methods]
Expression(expr) == [k |-> "Expression", expression |-> expr]
Function(name, params, body) ==
    [k |-> "Function", name |-> name, params |-> params, body |-> body]
If(condition, then_branch, else_branch) ==
    [k |-> "If", condition |-> condition, then_branch |-> then_branch,
     else_branch |-> else_branch]
PrintStmt(expr) == [k |-> "Print", expression |-> expr]
Return(keyword, value) == [k |-> "Return", keyword |-> keyword, value |-> value]
Var(name, initialiser) == [k |-> "Var", name |-> name, initialiser |-> initialiser]
While(condition, body) == [k |-> "While", condition |-> condition, body |-> body]

\* None where a statement is optional (If.else_branch)
NoStmt == [k |-> "none"]

(***************************************************************************)
(* plox/parser.py: declarations and statements.  kind "crash" is a Python  *)
(* exception other than LoxParseError leaving the method.                  *)
(***************************************************************************)
\* plox/tokens.py: the members of the enumeration TokenType
TokenType ==
    {"LEFT_PAREN", "RIGHT_PAREN", "LEFT_BRACE", "RIGHT_BRACE", "COMMA", "DOT",
     "MINUS", "PLUS", "SEMICOLON", "SLASH", "STAR", "BANG", "BANG_EQUAL", "EQUAL",
     "EQUAL_EQUAL", "GREATER", "GREATER_EQUAL", "LESS", "LESS_EQUAL", "IDENTIFIER",
     "STRING", "NUMBER", "AND", "CLASS", "ELSE", "FALSE", "FUN", "FOR", "IT", "NIL",
     "OR", "PRINT", "RETURN", "SUPER", "THIS", "TRUE", "VAR", "WHILE", "EOF"}

\* an exception that is not a LoxParseError, such as the AttributeError of
\* TokenType.X for an X that is no member
ParserCrash(p) == [p |-> p, kind |-> "crash", expr |-> NoExpr]

\* the keywords at which synchronise stops
SynchroniseAt == {"CLASS", "FOR", "IF", "PRINT", "RETURN", "VAR", "WHILE"}

RECURSIVE synchronise_loop(_)
\* `while not self.is_at_end` of synchronise
synchronise_loop(p) ==
    IF parser_is_at_end(p) THEN Parsed(p, NoExpr)
    ELSE IF previous(p).type = "SEMICOLON" THEN Parsed(p, NoExpr)
    ELSE IF ~(SynchroniseAt \subseteq TokenType) THEN ParserCrash(p)
    ELSE IF parser_peek(p).type \in SynchroniseAt THEN Parsed(p, NoExpr)
    ELSE synchronise_loop(parser_advance(p))

\* Parser.synchronise
synchronise(p) == synchronise_loop(parser_advance(p))

\* Parser.var_declaration
var_declaration(p) ==
    The({ IF name.kind # "ok" THEN name
          ELSE The({ IF initialiser.kind # "ok" THEN initialiser
                     ELSE LET c == consume(initialiser.p, "SEMICOLON",
                                           "Expect ';' after declaration.")
                          IN IF c.kind # "ok" THEN c
                             ELSE Parsed(c.p, Var(previous(name.p),
                                                  initialiser.expr))
                     : initialiser \in {IF parser_match(name.p, {"EQUAL"})
                                        THEN expression(parser_advance(name.p))
                                        ELSE Parsed(name.p, NoExpr)} })
          : name \in {consume(p, "IDENTIFIER", "Expect variable name.")} })

\* Parser.expression_statement
expression_statement(p) ==
    The({ IF value.kind # "ok" THEN value
          ELSE LET c == consume(value.p, "SEMICOLON", "Expect ';' after expression.")
               IN IF c.kind # "ok" THEN c ELSE Parsed(c.p, Expression(value.expr))
          : value \in {expression(p)} })

\* Parser.print_statement
print_statement(p) ==
    The({ IF value.kind # "ok" THEN value
          ELSE LET c == consume(value.p, "SEMICOLON", "Expect ';' after value.")
               IN IF c.kind # "ok" THEN c ELSE Parsed(c.p, PrintStmt(value.expr))
          : value \in {expression(p)} })

\* Parser.return_statement
return_statement(p) ==
    The({ IF value.kind # "ok" THEN value
          ELSE LET c == consume(value.p, "SEMICOLON",
                                "Expect ';' after return value.")
               IN IF c.kind # "ok" THEN c
                  ELSE Parsed(c.p, Return(previous(p), value.expr))
          : value \in {IF ~check(p, "SEMICOLON") THEN expression(p)
                       ELSE Parsed(p, NoExpr)} })

RECURSIVE parameters_loop(_, _)
\* `while self.match(TokenType.COMMA)` of function
parameters_loop(p, parameters) ==
    IF parser_match(p, {"COMMA"})
    THEN LET p1 == parser_advance(p)
             p2 == IF Len(parameters) >= MaxArguments
                   THEN parser_error(p1, parser_peek(p1),
                                     "Can't have more than 255 parameters.")
                   ELSE p1
             c == consume(p2, "IDENTIFIER", "Expect parameter name.")
         IN IF c.kind # "ok" THEN c
            ELSE parameters_loop(c.p, Append(parameters, previous(c.p)))
    ELSE [p |-> p, kind |-> "ok", parameters |-> parameters]

\* the parameters of function
parameters(p) ==
    IF ~check(p, "RIGHT_PAREN")
    THEN LET c == consume(p, "IDENTIFIER", "Expect parameter name.")
         IN IF c.kind # "ok" THEN c ELSE parameters_loop(c.p, <<previous(c.p)>>)
    ELSE [p |-> p, kind |-> "ok", parameters |-> <<>>]

RECURSIVE declaration(_), statement(_), for_statement(_), if_statement(_),
          while_statement(_), block(_, _), function(_, _)

\* Parser.declaration
declaration(p) ==
    The({ IF r.kind = "parse_error"
          THEN The({ IF s.kind # "ok" THEN s ELSE Parsed(s.p, NoStmt)
                     : s \in {synchronise(r.p)} })
          ELSE r
          : r \in {IF parser_match(p, {"FUN"})
                   THEN function(parser_advance(p), "function")
                   ELSE IF parser_match(p, {"VAR"})
                   THEN var_declaration(parser_advance(p))
                   ELSE statement(p)} })

\* Parser.statement
statement(p) ==
    IF parser_match(p, {"FOR"}) THEN for_statement(parser_advance(p))
    ELSE IF "IF" \notin TokenType THEN ParserCrash(p)
    ELSE IF parser_match(p, {"IF"}) THEN if_statement(parser_advance(p))
    ELSE IF parser_match(p, {"PRINT"}) THEN print_statement(parser_advance(p))
    ELSE IF parser_match(p, {"RETURN"}) THEN return_statement(parser_advance(p))
    ELSE IF parser_match(p, {"WHILE"}) THEN while_statement(parser_advance(p))
    ELSE IF parser_match(p, {"LEFT_BRACE"})
    THEN The({ IF b.kind # "ok" THEN b ELSE Parsed(b.p, Block(b.statements))
               : b \in {block(parser_advance(p), <<>>)} })
    ELSE expression_statement(p)

\* the desugared for statement
Desugared(initialiser, condition, increment, body) ==
    LET inner == IF increment # NoExpr
                 THEN Block(<<body, Expression(increment)>>) ELSE body
        loop == While(condition, inner)
    IN IF initialiser # NoStmt THEN Block(<<initialiser, loop>>) ELSE loop

\* Parser.for_statement
for_statement(p) ==
    LET c1 == consume(p, "LEFT_PAREN", "Expect '(' after 'for'.") IN
    IF c1.kind # "ok" THEN c1 ELSE
    The({ IF initialiser.kind # "ok" THEN initialiser ELSE
          The({ IF condition.kind # "ok" THEN condition ELSE
                LET c2 == consume(condition.p, "SEMICOLON",
                                  "Expect ';' after loop condition.") IN
                IF c2.kind # "ok" THEN c2 ELSE
                The({ IF increment.kind # "ok" THEN increment ELSE
                      LET c3 == consume(increment.p, "RIGHT_PAREN",
                                        "Expect ')' after increment.") IN
                      IF c3.kind # "ok" THEN c3 ELSE
                      The({ IF body.kind # "ok" THEN body
                            ELSE Parsed(body.p,
                                     Desugared(initialiser.expr, condition.expr,
                                               increment.expr, body.expr))
                            : body \in {statement(c3.p)} })
                      : increment \in {IF ~check(c2.p, "RIGHT_PAREN")
                                       THEN expression(c2.p)
                                       ELSE Parsed(c2.p, NoExpr)} })
                : condition \in {IF ~check(initialiser.p, "SEMICOLON")
                                 THEN expression(initialiser.p)
                                 ELSE Parsed(Alloc(initialiser.p),
                                          Literal(initialiser.p.next_id,
                                                  Bool(TRUE)))} })
          : initialiser \in {IF parser_match(c1.p, {"SEMICOLON"})
                             THEN Parsed(parser_advance(c1.p), NoStmt)
                             ELSE IF parser_match(c1.p, {"VAR"})
                             THEN var_declaration(parser_advance(c1.p))
                             ELSE expression_statement(c1.p)} })

\* Parser.if_statement
if_statement(p) ==
    LET c1 == consume(p, "LEFT_PAREN", "Expect '(' after 'if'.") IN
    IF c1.kind # "ok" THEN c1 ELSE
    The({ IF condition.kind # "ok" THEN condition ELSE
          LET c2 == consume(condition.p, "RIGHT_PAREN",
                            "Expect ')' after if condition.") IN
          IF c2.kind # "ok" THEN c2 ELSE
          The({ IF then_branch.kind # "ok" THEN then_branch ELSE
                The({ IF else_branch.kind # "ok" THEN else_branch
                      ELSE Parsed(else_branch.p,
                               If(condition.expr, then_branch.expr,
                                  else_branch.expr))
                      : else_branch \in {IF parser_match(then_branch.p, {"ELSE"})
                                         THEN statement(parser_advance(then_branch.p))
                                         ELSE Parsed(then_branch.p, NoStmt)} })
                : then_branch \in {statement(c2.p)} })
          : condition \in {expression(c1.p)} })

\* Parser.while_statement
while_statement(p) ==
    LET c1 == consume(p, "LEFT_PAREN", "Expect '(' after 'while'.") IN
    IF c1.kind # "ok" THEN c1 ELSE
    The({ IF condition.kind # "ok" THEN condition ELSE
          LET c2 == consume(condition.p, "RIGHT_PAREN",
                            "Expect ')' after condition.") IN
          IF c2.kind # "ok" THEN c2 ELSE
          The({ IF body.kind # "ok" THEN body
                ELSE Parsed(body.p, While(condition.expr, body.expr))
                : body \in {statement(c2.p)} })
          : condition \in {expression(c1.p)} })

\* Parser.block; statements is the list built so far
block(p, statements) ==
    IF ~check(p, "RIGHT_BRACE") /\ ~parser_is_at_end(p)
    THEN The({ IF d.kind # "ok" THEN d
               ELSE block(d.p, Append(statements, d.expr))
               : d \in {declaration(p)} })
    ELSE LET c == consume(p, "RIGHT_BRACE", "Expect '}' after block.")
         IN IF c.kind # "ok" THEN c
            ELSE [p |-> c.p, kind |-> "ok", statements |-> statements]

\* Parser.function
function(p, kind) ==
    LET name == consume(p, "IDENTIFIER", "Expect " \o kind \o " name.") IN
    IF name.kind # "ok" THEN name ELSE
    LET c1 == consume(name.p, "LEFT_PAREN", "Expect '(' after " \o kind \o " name.")
    IN
    IF c1.kind # "ok" THEN c1 ELSE
    The({ IF params.kind # "ok" THEN params ELSE
          LET c2 == consume(params.p, "RIGHT_PAREN", "Expect ')' after parameters.")
          IN
          IF c2.kind # "ok" THEN c2 ELSE
          LET c3 == consume(c2.p, "LEFT_BRACE",
                            "Expect '{' before " \o kind \o " body.")
          IN
          IF c3.kind # "ok" THEN c3 ELSE
          The({ IF body.kind # "ok" THEN body
                ELSE Parsed(body.p, Function(previous(name.p), params.parameters,
                                             body.statements))
                : body \in {block(c3.p, <<>>)} })
          : params \in {parameters(c1.p)} })

RECURSIVE parse_loop(_, _)
\* `while not self.is_at_end` of parse
parse_loop(p, statements) ==
    IF ~parser_is_at_end(p)
    THEN The({ IF d.kind # "ok"
               THEN [p |-> d.p, kind |-> d.kind, statements |-> statements]
               ELSE parse_loop(d.p, Append(statements, d.expr))
               : d \in {declaration(p)} })
    ELSE [p |-> p, kind |-> "ok", statements |-> statements]

\* Parser.parse
parse(p) == parse_loop(p, <<>>)

(***************************************************************************)
(* plox/function.py, plox/callables.py: the callable values                *)
(***************************************************************************)
\* LoxFunction(declaration, closure, is_initialiser)
LoxFunction(stmt, closure, is_initialiser) ==
    [t |-> "function", n |-> 0, s |-> stmt.name.lexeme,
     declaration |-> stmt, closure |-> closure,
     is_initialiser |-> is_initialiser]

\* LoxInstance(klass), an object of its own; str() gives "<class name> instance"
LoxInstance(klass, object) ==
    [t |-> "instance", n |-> object, s |-> klass \o " instance"]

\* LoxFunction.bind: the function with a closure that binds this, in the heap
\* extended by that closure
bind(heap, self, instance) ==
    [heap |-> define(Append(heap, Environment(self.closure)), Len(heap) + 1,
                     "this", instance),
     function |-> LoxFunction(self.declaration, Len(heap) + 1, self.is_initialiser)]

\* the LoxCallable that standard_global_environment binds to clock
Clock == [t |-> "callable", n |-> 0, s |-> "<native fn>"]

\* standard_global_environment()
standard_global_environment == define(<<Environment(None)>>, 1, "clock", Clock)

\* Interpreter.globals, a class attribute: the first object of the heap
globals == 1

(***************************************************************************)
(* plox/interpreter.py.  A visit maps the state st it starts in (the heap  *)
(* of environments, the interpreter's environment, its locals, the lines   *)
(* printed, the log of execute_block calls) to the state afterwards, how   *)
(* it ended and the value it returned:                                     *)
(*   kind "ok"     a normal return of value                                *)
(*   kind "err"    LoxRuntimeError(exc.token, exc.message) was raised      *)
(*   kind "ret"    ReturnException(value) was raised                       *)
(*   kind "crash"  another Python exception, named by exc.message          *)
(***************************************************************************)
NoExc == [token |-> NoToken, message |-> ""]
Ok(st, value) == [st |-> st, kind |-> "ok", value |-> value, exc |-> NoExc]
Raise(st, token, message) ==
    [st |-> st, kind |-> "err", value |-> Nil,
     exc |-> [token |-> token, message |-> message]]
ReturnException(st, value) ==
    [st |-> st, kind |-> "ret", value |-> value, exc |-> NoExc]
Crash(st, exception) ==
    [st |-> st, kind |-> "crash", value |-> Nil,
     exc |-> [token |-> NoToken, message |-> exception]]

\* the same outcome in another state
In(st, r) == [r EXCEPT !.st = st]

RECURSIVE ancestor(_, _, _)
\* Environment.ancestor: depth enclosing links up; None has no enclosing
ancestor(h, e, depth) ==
    IF depth = 0 THEN [kind |-> "ok", env |-> e]
    ELSE IF e = None THEN [kind |-> "crash", env |-> None]
    ELSE ancestor(h, h[e].enclosing, depth - 1)

\* the state with a note of a call of get_at or assign_at: whether the chain
\* has an environment depth links up and whether its dict has the name
looked_up(st, depth, name) ==
    LET a == ancestor(st.heap, st.environment, depth)
        on_chain == a.kind = "ok" /\ a.env # None
    IN [st EXCEPT !.lookups =
           Append(@, [depth |-> depth, name |-> name, on_chain |-> on_chain,
                      defined |-> IF on_chain
                                  THEN name \in DOMAIN st.heap[a.env].values
                                  ELSE FALSE])]

\* Environment.get_at: self.ancestor(depth).values[name]
get_at(st, depth, name) ==
    LET a == ancestor(st.heap, st.environment, depth)
        seen == looked_up(st, depth, name)
    IN IF a.kind # "ok" \/ a.env = None THEN Crash(seen, "AttributeError")
       ELSE IF name \notin DOMAIN st.heap[a.env].values THEN Crash(seen, "KeyError")
       ELSE Ok(seen, st.heap[a.env].values[name])

\* Environment.assign_at: self.ancestor(depth).values[name.lexeme] = value
assign_at(st, depth, name, value) ==
    LET a == ancestor(st.heap, st.environment, depth)
        seen == looked_up(st, depth, name.lexeme)
    IN IF a.kind # "ok" \/ a.env = None THEN Crash(seen, "AttributeError")
       ELSE Ok([seen EXCEPT !.heap = define(st.heap, a.env, name.lexeme, value)],
               value)

\* Interpreter.is_truthy
is_truthy(value) ==
    IF value = Nil THEN FALSE
    ELSE IF value.t = "bool" THEN value.n = 1
    ELSE TRUE

\* a variant of is_equal that compares with == alone, for which True == 1.0
\* and False == 0.0
is_equal_by_value(left, right) ==
    IF left.t \in {"bool", "num"} /\ right.t \in {"bool", "num"}
    THEN left.n = right.n /\ left.s = right.s
    ELSE left = right

\* Interpreter.is_equal
is_equal(left, right) ==
    IF left.t = "bool" \/ right.t = "bool"
    THEN left.t = "bool" /\ right.t = "bool" /\ left.n = right.n
    ELSE left = right

\* str(float) of a whole number without its ".0"
NumberText(n) == IF n < 0 THEN "-" \o ToString(-n) ELSE ToString(n)

\* Interpreter.stringify
stringify(obj) ==
    CASE obj = Nil -> "nil"
      [] obj = Bool(TRUE) -> "true"
      [] obj = Bool(FALSE) -> "false"
      [] obj.t = "num" ->
            IF obj.s = "" THEN NumberText(obj.n)
            ELSE NumberText(obj.n) \o "." \o obj.s
      [] obj.t = "function" -> "<fn " \o obj.s \o ">"
      [] OTHER -> obj.s

\* a variant of look_up_variable that searches from the current environment
\* when no depth is recorded
look_up_variable_from_current(st, name, expr) ==
    IF expr.id \in DOMAIN st.locals
    THEN get_at(st, st.locals[expr.id], name.lexeme)
    ELSE LET r == get(st.heap, st.environment, name.lexeme) IN
         IF r.kind = "ok" THEN Ok(st, r.value) ELSE Raise(st, name, r.msg)

\* Interpreter.look_up_variable
look_up_variable(st, name, expr) ==
    IF expr.id \in DOMAIN st.locals
    THEN get_at(st, st.locals[expr.id], name.lexeme)
    ELSE LET r == get(st.heap, globals, name.lexeme) IN
         IF r.kind = "ok" THEN Ok(st, r.value) ELSE Raise(st, name, r.msg)

\* visit_assign after the value is known
assign_variable(st, expr, value) ==
    IF expr.id \in DOMAIN st.locals
    THEN assign_at(st, st.locals[expr.id], expr.name, value)
    ELSE LET r == assign(st.heap, globals, expr.name.lexeme, value) IN
         IF r.out.kind = "ok" THEN Ok([st EXCEPT !.heap = r.heap], value)
         ELSE Raise(st, expr.name, r.out.msg)

\* isinstance(operand, float)
is_number(v) == v.t = "num"

\* Interpreter.visit_unary after the operand is known
unary_value(st, operator, right) ==
    CASE operator.type = "MINUS" ->
            IF ~is_number(right) THEN Raise(st, operator, "Operand must be a number.")
            ELSE Ok(st, Num(-right.n))
      [] operator.type = "BANG" -> Ok(st, Bool(~is_truthy(right)))
      [] OTHER -> Ok(st, Nil)

RECURSIVE GCD(_, _)
GCD(a, b) == IF b = 0 THEN a ELSE GCD(b, a % b)

\* float(left) / float(right) for a divisor that is not zero: the whole part
\* as n and, when the division leaves a rest, the rest over the divisor, in
\* lowest terms, as s
Quotient(a, b) ==
    LET x == IF b < 0 THEN -a ELSE a
        y == IF b < 0 THEN -b ELSE b
        g == GCD(x % y, y)
    IN [t |-> "num", n |-> x \div y,
        s |-> IF x % y = 0 THEN ""
              ELSE ToString((x % y) \div g) \o "/" \o ToString(y \div g)]

\* Interpreter.visit_binary after both operands are known
binary_value(st, operator, left, right) ==
    LET numbers == is_number(left) /\ is_number(right)
        mismatch == Raise(st, operator, "Operands must be numbers.")
    IN
    CASE operator.type = "EQUAL_EQUAL" -> Ok(st, Bool(is_equal(left, right)))
      [] operator.type = "BANG_EQUAL" -> Ok(st, Bool(~is_equal(left, right)))
      [] operator.type = "GREATER" ->
            IF numbers THEN Ok(st, Bool(left.n > right.n)) ELSE mismatch
      [] operator.type = "GREATER_EQUAL" ->
            IF numbers THEN Ok(st, Bool(left.n >= right.n)) ELSE mismatch
      [] operator.type = "LESS" ->
            IF numbers THEN Ok(st, Bool(left.n < right.n)) ELSE mismatch
      [] operator.type = "LESS_EQUAL" ->
            IF numbers THEN Ok(st, Bool(left.n <= right.n)) ELSE mismatch
      [] operator.type = "PLUS" ->
            IF numbers THEN Ok(st, Num(left.n + right.n))
            ELSE IF left.t = "str" /\ right.t = "str"
            THEN Ok(st, Str(left.s \o right.s))
            ELSE Raise(st, operator, "Operands must be two numbers or two strings.")
      [] operator.type = "MINUS" ->
            IF numbers THEN Ok(st, Num(left.n - right.n)) ELSE mismatch
      [] operator.type = "STAR" ->
            IF numbers THEN Ok(st, Num(left.n * right.n)) ELSE mismatch
      [] operator.type = "SLASH" ->
            IF ~numbers THEN mismatch
            ELSE IF right.n = 0 THEN Crash(st, "ZeroDivisionError")
            ELSE Ok(st, Quotient(left.n, right.n))
      [] OTHER -> Ok(st, Nil)

RECURSIVE evaluate(_, _), evaluate_arguments(_, _, _), call_value(_, _, _, _),
          function_call(_, _, _), execute(_, _), execute_statements(_, _),
          execute_block(_, _, _), while_loop(_, _)

\* Interpreter.evaluate: expr.accept(self), the visit of the node's class
evaluate(st, expr) ==
    CASE expr.k = "Literal" -> Ok(st, expr.value)
      [] expr.k = "Grouping" -> evaluate(st, expr.expression)
      [] expr.k = "Variable" -> look_up_variable(st, expr.name, expr)
      [] expr.k = "Assign" ->
            The({ IF v.kind # "ok" THEN v ELSE assign_variable(v.st, expr, v.value)
                  : v \in {evaluate(st, expr.value)} })
      [] expr.k = "Logical" ->
            The({ IF result.kind # "ok" THEN result
                  ELSE IF \/ expr.operator.type = "AND" /\ is_truthy(result.value)
                          \/ expr.operator.type = "OR" /\ ~is_truthy(result.value)
                  THEN evaluate(result.st, expr.right)
                  ELSE result
                  : result \in {evaluate(st, expr.left)} })
      [] expr.k = "Unary" ->
            The({ IF right.kind # "ok" THEN right
                  ELSE unary_value(right.st, expr.operator, right.value)
                  : right \in {evaluate(st, expr.right)} })
      [] expr.k = "Binary" ->
            The({ IF left.kind # "ok" THEN left
                  ELSE The({ IF right.kind # "ok" THEN right
                             ELSE binary_value(right.st, expr.operator,
                                               left.value, right.value)
                             : right \in {evaluate(left.st, expr.right)} })
                  : left \in {evaluate(st, expr.left)} })
      [] expr.k = "Call" ->
            The({ IF callee.kind # "ok" THEN callee
                  ELSE The({ IF args.kind # "ok" THEN args.raised
                             ELSE call_value(args.st, expr, callee.value,
                                             args.arguments)
                             : args \in {evaluate_arguments(
                                            [st |-> callee.st, kind |-> "ok",
                                             arguments |-> <<>>,
                                             raised |-> Ok(callee.st, Nil)],
                                            expr.arguments, 1)} })
                  : callee \in {evaluate(st, expr.callee)} })

RECURSIVE evaluate_arguments_right_to_left(_, _, _)
\* a variant of evaluate_arguments that evaluates the last argument first
evaluate_arguments_right_to_left(acc, arguments, i) ==
    IF i > Len(arguments) THEN acc
    ELSE The({ IF v.kind # "ok"
               THEN [st |-> v.st, kind |-> v.kind, arguments |-> acc.arguments,
                     raised |-> v]
               ELSE evaluate_arguments_right_to_left(
                        [st |-> v.st, kind |-> "ok",
                         arguments |-> <<v.value>> \o acc.arguments,
                         raised |-> v],
                        arguments, i + 1)
               : v \in {evaluate(acc.st, arguments[Len(arguments) - i + 1])} })

\* [self.evaluate(arg) for arg in expr.arguments], from argument i on
evaluate_arguments(acc, arguments, i) ==
    IF i > Len(arguments) THEN acc
    ELSE The({ IF v.kind # "ok"
               THEN [st |-> v.st, kind |-> v.kind, arguments |-> acc.arguments,
                     raised |-> v]
               ELSE evaluate_arguments(
                        [st |-> v.st, kind |-> "ok",
                         arguments |-> Append(acc.arguments, v.value),
                         raised |-> v],
                        arguments, i + 1)
               : v \in {evaluate(acc.st, arguments[i])} })

\* callee.arity()
arity(callee) ==
    IF callee.t = "function" THEN Len(callee.declaration.params) ELSE 0

\* Interpreter.visit_call once the callee and the arguments are known
call_value(st, expr, callee, arguments) ==
    IF callee.t \notin {"function", "callable"}
    THEN Raise(st, expr.paren, "Can only call functions and classes.")
    ELSE IF Len(arguments) # arity(callee)
    THEN Raise(st, expr.paren,
               "Expected " \o ToString(arity(callee)) \o " arguments but got "
               \o ToString(Len(arguments)) \o ".")
    ELSE IF callee.t = "callable" THEN Ok(st, Num(st.now))
    ELSE function_call(st, callee, arguments)

\* the parameters bound to the arguments in a new environment
bind_parameters(values, params, arguments) ==
    [name \in DOMAIN values \cup {params[i].lexeme : i \in DOMAIN params} |->
        IF \E i \in DOMAIN params : params[i].lexeme = name
        THEN arguments[CHOOSE i \in DOMAIN params :
                          /\ params[i].lexeme = name
                          /\ \A j \in DOMAIN params :
                                params[j].lexeme = name => j <= i]
        ELSE values[name]]

\* self.closure.get_at(0, "this")
closure_this(st, closure) ==
    IF "this" \in DOMAIN st.heap[closure].values
    THEN Ok(st, st.heap[closure].values["this"])
    ELSE Crash(st, "KeyError")

\* a variant of LoxFunction.call without the `except ReturnException`
function_call_no_except(st, self, arguments) ==
    LET environment == Len(st.heap) + 1
        st1 == [st EXCEPT
                   !.heap = Append(@, [enclosing |-> self.closure,
                                       values |-> bind_parameters(<<>>,
                                           self.declaration.params, arguments)]),
                   !.calls = Append(@, [function |-> self.s,
                                        closure |-> self.closure,
                                        caller |-> st.environment,
                                        environment |-> environment])]
    IN The({ IF r.kind = "ok"
             THEN IF self.is_initialiser THEN closure_this(r.st, self.closure)
                  ELSE Ok(r.st, Nil)
             ELSE r
             : r \in {execute_block(st1, self.declaration.body, environment)} })

\* LoxFunction.call; calls logs every call: the function, its closure, the
\* caller's environment and the environment made for the body
function_call(st, self, arguments) ==
    LET environment == Len(st.heap) + 1
        st1 == [st EXCEPT
                   !.heap = Append(@, [enclosing |-> self.closure,
                                       values |-> bind_parameters(<<>>,
                                           self.declaration.params, arguments)]),
                   !.calls = Append(@, [function |-> self.s,
                                        closure |-> self.closure,
                                        caller |-> st.environment,
                                        environment |-> environment])]
    IN The({ IF r.kind = "ret"
             THEN IF self.is_initialiser THEN closure_this(r.st, self.closure)
                  ELSE Ok(r.st, r.value)
             ELSE IF r.kind = "ok"
             THEN IF self.is_initialiser THEN closure_this(r.st, self.closure)
                  ELSE Ok(r.st, Nil)
             ELSE r
             : r \in {execute_block(st1, self.declaration.body, environment)} })

\* Interpreter.execute: stmt.accept(self), the visit of the node's class
execute(st, stmt) ==
    CASE stmt.k = "Var" ->
            IF stmt.initialiser # NoExpr
            THEN The({ IF v.kind # "ok" THEN v
                       ELSE Ok([v.st EXCEPT !.heap =
                                   define(@, v.st.environment, stmt.name.lexeme,
                                          v.value)], Nil)
                       : v \in {evaluate(st, stmt.initialiser)} })
            ELSE Ok([st EXCEPT !.heap =
                        define(@, st.environment, stmt.name.lexeme, Nil)], Nil)
      [] stmt.k = "Class" ->
            \* LoxClass(stmt.name.lexeme): superclass and methods are not given
            Crash([st EXCEPT !.heap = define(@, st.environment, stmt.name.lexeme, Nil)],
                  "TypeError")
      [] stmt.k = "Expression" ->
            The({ IF v.kind # "ok" THEN v ELSE Ok(v.st, Nil)
                  : v \in {evaluate(st, stmt.expression)} })
      [] stmt.k = "Function" ->
            \* LoxFunction(stmt, self.environment): is_initialiser is not given
            Crash(st, "TypeError")
      [] stmt.k = "If" ->
            The({ IF c.kind # "ok" THEN c
                  ELSE IF is_truthy(c.value) THEN execute(c.st, stmt.then_branch)
                  ELSE IF stmt.else_branch # NoStmt
                  THEN execute(c.st, stmt.else_branch)
                  ELSE Ok(c.st, Nil)
                  : c \in {evaluate(st, stmt.condition)} })
      [] stmt.k = "Print" ->
            The({ IF v.kind # "ok" THEN v
                  ELSE Ok([v.st EXCEPT !.out = Append(@, stringify(v.value))], Nil)
                  : v \in {evaluate(st, stmt.expression)} })
      [] stmt.k = "Return" ->
            IF stmt.value # NoExpr
            THEN The({ IF v.kind # "ok" THEN v ELSE ReturnException(v.st, v.value)
                       : v \in {evaluate(st, stmt.value)} })
            ELSE ReturnException(st, Nil)
      [] stmt.k = "While" -> while_loop(st, stmt)
      [] stmt.k = "Block" ->
            execute_block([st EXCEPT !.heap = Append(@, Environment(st.environment))],
                          stmt.statements, Len(st.heap) + 1)

\* Interpreter.visit_while
while_loop(st, stmt) ==
    The({ IF c.kind # "ok" THEN c
          ELSE IF is_truthy(c.value)
          THEN The({ IF b.kind # "ok" THEN b ELSE while_loop(b.st, stmt)
                     : b \in {execute(c.st, stmt.body)} })
          ELSE Ok(c.st, Nil)
          : c \in {evaluate(st, stmt.condition)} })

\* `for stmt in statements: self.execute(stmt)`
execute_statements(st, statements) ==
    IF statements = <<>> THEN Ok(st, Nil)
    ELSE The({ IF r.kind # "ok" THEN r
               ELSE execute_statements(r.st, Tail(statements))
               : r \in {execute(st, Head(statements))} })

\* a variant of execute_block without the finally clause: the environment is
\* put back only when the statements complete
execute_block_no_finally(st, statements, environment) ==
    The({ LET after == IF r.kind = "ok"
                       THEN [r.st EXCEPT !.environment = st.environment]
                       ELSE r.st
          IN In([after EXCEPT !.blocks =
                    Append(@, [previous |-> st.environment,
                               environment |-> environment,
                               exit |-> r.kind,
                               after |-> after.environment])], r)
          : r \in {execute_statements([st EXCEPT !.environment = environment],
                                      statements)} })

\* Interpreter.execute_block; blocks logs every call: the environment before
\* it, the one it ran in, how it ended and the environment after it
execute_block(st, statements, environment) ==
    The({ LET after == [r.st EXCEPT !.environment = st.environment]
          IN In([after EXCEPT !.blocks =
                    Append(@, [previous |-> st.environment,
                               environment |-> environment,
                               exit |-> r.kind,
                               after |-> after.environment])], r)
          : r \in {execute_statements([st EXCEPT !.environment = environment],
                                      statements)} })

\* what Plox.runtime_error prints: str(error), "[line N]"
runtime_error(exc) == [error |-> exc.message, line |-> exc.token.line]

RECURSIVE interpret_loop_keeps_going(_, _, _)
\* a variant of the loop of interpret that catches the error inside the loop
\* and goes on with the next statement
interpret_loop_keeps_going(st, statements, k) ==
    IF k > Len(statements) THEN [st |-> st, raised |-> Ok(st, Nil), failed |-> 0]
    ELSE The({ IF r.kind = "err"
               THEN The({ [l EXCEPT !.raised = r, !.failed = k]
                          : l \in {interpret_loop_keeps_going(r.st, statements,
                                                              k + 1)} })
               ELSE IF r.kind # "ok"
               THEN [st |-> r.st, raised |-> r, failed |-> k]
               ELSE interpret_loop_keeps_going(r.st, statements, k + 1)
               : r \in {execute([st EXCEPT !.ran = Append(@, k)], statements[k])} })

RECURSIVE interpret_loop(_, _, _)
\* `for stmt in statements: self.execute(stmt)` of interpret, from statement k
\* on; ran logs the statements started, failed is the one that raised
interpret_loop(st, statements, k) ==
    IF k > Len(statements) THEN [st |-> st, raised |-> Ok(st, Nil), failed |-> 0]
    ELSE The({ IF r.kind # "ok" THEN [st |-> r.st, raised |-> r, failed |-> k]
               ELSE interpret_loop(r.st, statements, k + 1)
               : r \in {execute([st EXCEPT !.ran = Append(@, k)], statements[k])} })

\* Interpreter.interpret: a LoxRuntimeError is handed to Plox.runtime_error,
\* any other exception leaves interpret
interpret(st, statements) ==
    The({ [st |-> l.st,
           kind |-> IF l.raised.kind = "err" THEN "ok" ELSE l.raised.kind,
           reported |-> IF l.raised.kind = "err"
                        THEN <<runtime_error(l.raised.exc)>> ELSE <<>>,
           failed |-> l.failed,
           raised |-> l.raised.kind]
          : l \in {interpret_loop(st, statements, 1)} })

(***************************************************************************)
(* plox/resolver.py.  A visit maps the Resolver object (scopes,            *)
(* current_function, the interpreter's locals, the errors reported through *)
(* Plox.error) to the object afterwards.                                   *)
(***************************************************************************)
\* Resolver(interpreter)
Resolver(interpreter) ==
    [scopes |-> <<>>, current_function |-> "NONE", current_class |-> "NONE",
     locals |-> interpreter.locals, errs |-> <<>>, crashed |-> FALSE]

\* Plox.error from the resolver
resolver_error(rs, token, message) ==
    [rs EXCEPT !.errs = Append(@, error(token.line, message, token))]

\* Resolver.begin_scope
begin_scope(rs) == [rs EXCEPT !.scopes = Append(@, <<>>)]

\* Resolver.end_scope
end_scope(rs) == [rs EXCEPT !.scopes = SubSeq(@, 1, Len(@) - 1)]

\* scope[name] = flag in the innermost scope
mark(rs, name, flag) ==
    LET scope == rs.scopes[Len(rs.scopes)] IN
    [rs EXCEPT !.scopes[Len(rs.scopes)] =
        [n \in DOMAIN scope \cup {name} |-> IF n = name THEN flag ELSE scope[n]]]

\* a variant of declare that marks the name as defined at once
declare_defined(rs, name) ==
    IF rs.scopes = <<>> THEN rs
    ELSE mark(IF name.lexeme \in DOMAIN rs.scopes[Len(rs.scopes)]
              THEN resolver_error(rs, name,
                       "Already a variable with this name in this scope.")
              ELSE rs,
              name.lexeme, TRUE)

\* Resolver.declare
declare(rs, name) ==
    IF rs.scopes = <<>> THEN rs
    ELSE mark(IF name.lexeme \in DOMAIN rs.scopes[Len(rs.scopes)]
              THEN resolver_error(rs, name,
                       "Already a variable with this name in this scope.")
              ELSE rs,
              name.lexeme, FALSE)

\* Resolver.define
resolver_define(rs, name) ==
    IF rs.scopes = <<>> THEN rs ELSE mark(rs, name.lexeme, TRUE)

\* a variant of resolve_local that takes the outermost scope holding the name
resolve_local_outermost(rs, expr, name) ==
    LET holding == {i \in DOMAIN rs.scopes : name.lexeme \in DOMAIN rs.scopes[i]} IN
    IF holding = {} THEN rs
    ELSE LET outermost == CHOOSE i \in holding : \A j \in holding : i <= j
             depth == Len(rs.scopes) - outermost
         IN [rs EXCEPT !.locals =
                [e \in DOMAIN rs.locals \cup {expr.id} |->
                    IF e = expr.id THEN depth ELSE rs.locals[e]]]

\* Resolver.resolve_local, and Interpreter.resolve: self.locals[expr] = depth
resolve_local(rs, expr, name) ==
    LET holding == {i \in DOMAIN rs.scopes : name.lexeme \in DOMAIN rs.scopes[i]} IN
    IF holding = {} THEN rs
    ELSE LET innermost == CHOOSE i \in holding : \A j \in holding : j <= i
             depth == Len(rs.scopes) - innermost
         IN [rs EXCEPT !.locals =
                [e \in DOMAIN rs.locals \cup {expr.id} |->
                    IF e = expr.id THEN depth ELSE rs.locals[e]]]

RECURSIVE declare_parameters(_, _)
\* `for param in stmt.params: self.declare(param); self.define(param)`
declare_parameters(rs, params) ==
    IF params = <<>> THEN rs
    ELSE declare_parameters(resolver_define(declare(rs, Head(params)), Head(params)),
                            Tail(params))

RECURSIVE resolve(_, _), resolve_statement(_, _), resolve_expression(_, _),
          resolve_arguments(_, _), resolve_function(_, _, _), resolve_methods(_, _)

\* Resolver.resolve
resolve(rs, statements) ==
    IF statements = <<>> \/ rs.crashed THEN rs
    ELSE resolve(resolve_statement(rs, Head(statements)), Tail(statements))

\* a variant of resolve_function that opens one scope for the parameters and
\* another for the body
resolve_function_body_scope(rs, stmt, function_type) ==
    IF rs.crashed THEN rs
    ELSE [end_scope(end_scope(resolve(begin_scope(declare_parameters(
                                begin_scope([rs EXCEPT !.current_function =
                                                function_type]),
                                stmt.params)),
                            stmt.body)))
          EXCEPT !.current_function = rs.current_function]

\* Resolver.resolve_function
resolve_function(rs, stmt, function_type) ==
    IF rs.crashed THEN rs
    ELSE [end_scope(resolve(declare_parameters(
                                begin_scope([rs EXCEPT !.current_function =
                                                function_type]),
                                stmt.params),
                            stmt.body))
          EXCEPT !.current_function = rs.current_function]

\* `for method in stmt.methods` of visit_class
resolve_methods(rs, methods) ==
    IF methods = <<>> \/ rs.crashed THEN rs
    ELSE resolve_methods(
             resolve_function(rs, Head(methods),
                              IF Head(methods).name.lexeme = "init"
                              THEN "INITIALISER" ELSE "METHOD"),
             Tail(methods))

\* Resolver.resolve_statement: stmt.accept(self), the visit of the node's class
resolve_statement(rs, stmt) ==
    IF rs.crashed THEN rs ELSE
    CASE stmt.k = "Block" ->
            The({ IF r.crashed THEN r ELSE end_scope(r)
                  : r \in {resolve(begin_scope(rs), stmt.statements)} })
      [] stmt.k = "Class" ->
            The({ IF r.crashed THEN r
                  ELSE [end_scope(r) EXCEPT !.current_class = rs.current_class]
                  : r \in {resolve_methods(
                              mark(begin_scope(
                                       resolver_define(
                                           declare([rs EXCEPT !.current_class = "CLASS"],
                                                   stmt.name),
                                           stmt.name)),
                                   "this", TRUE),
                              stmt.methods)} })
      [] stmt.k = "Expression" -> resolve_expression(rs, stmt.expression)
      [] stmt.k = "Function" ->
            resolve_function(resolver_define(declare(rs, stmt.name), stmt.name),
                             stmt, "FUNCTION")
      [] stmt.k = "If" ->
            The({ IF stmt.else_branch # NoStmt
                  THEN resolve_statement(r, stmt.else_branch) ELSE r
                  : r \in {resolve_statement(
                              resolve_expression(rs, stmt.condition),
                              stmt.then_branch)} })
      [] stmt.k = "Print" -> resolve_expression(rs, stmt.expression)
      [] stmt.k = "Return" ->
            The({ IF stmt.value # NoExpr
                  THEN resolve_expression(
                           IF r.current_function = "INITIALISER"
                           THEN resolver_error(r, stmt.keyword,
                                    "Can't return a value from an initializer.")
                           ELSE r,
                           stmt.value)
                  ELSE r
                  : r \in {IF rs.current_function = "NONE"
                           THEN resolver_error(rs, stmt.keyword,
                                    "Can't return from top-level code.")
                           ELSE rs} })
      [] stmt.k = "Var" ->
            The({ resolver_define(r, stmt.name)
                  : r \in {IF stmt.initialiser # NoExpr
                           THEN resolve_expression(declare(rs, stmt.name),
                                                   stmt.initialiser)
                           ELSE declare(rs, stmt.name)} })
      [] stmt.k = "While" ->
            resolve_statement(resolve_expression(rs, stmt.condition), stmt.body)
      \* None in the list: None has no accept
      [] OTHER -> [rs EXCEPT !.crashed = TRUE]

\* `for arg in expr.arguments: self.resolve_expression(arg)`
resolve_arguments(rs, arguments) ==
    IF arguments = <<>> THEN rs
    ELSE resolve_arguments(resolve_expression(rs, Head(arguments)), Tail(arguments))

\* Resolver.resolve_expression: expr.accept(self), the visit of the node's class
resolve_expression(rs, expr) ==
    IF rs.crashed THEN rs ELSE
    CASE expr.k = "Assign" ->
            The({ resolve_local(r, expr, expr.name)
                  : r \in {resolve_expression(rs, expr.value)} })
      [] expr.k = "Binary" ->
            resolve_expression(resolve_expression(rs, expr.left), expr.right)
      [] expr.k = "Call" ->
            resolve_arguments(resolve_expression(rs, expr.callee), expr.arguments)
      [] expr.k = "Grouping" -> resolve_expression(rs, expr.expression)
      [] expr.k = "Literal" -> rs
      [] expr.k = "Logical" ->
            resolve_expression(resolve_expression(rs, expr.left), expr.right)
      [] expr.k = "This" ->
            IF rs.current_class = "NONE"
            THEN resolver_error(rs, expr.keyword, "Can't use 'this' outside of a class.")
            ELSE resolve_local(rs, expr, expr.keyword)
      [] expr.k = "Unary" -> resolve_expression(rs, expr.right)
      [] expr.k = "Variable" ->
            resolve_local(
                IF /\ rs.scopes # <<>>
                   /\ expr.name.lexeme \in DOMAIN rs.scopes[Len(rs.scopes)]
                   /\ rs.scopes[Len(rs.scopes)][expr.name.lexeme] = FALSE
                THEN resolver_error(rs, expr.name,
                         "Can't read local variable in its own initializer.")
                ELSE rs,
                expr, expr.name)
      [] OTHER -> [rs EXCEPT !.crashed = TRUE]

(***************************************************************************)
(* The interpreter specification: a client holds an Interpreter() whose    *)
(* globals bind clock and one function object f, hands a statement list to *)
(* Resolver(interpreter).resolve or not, and calls interpret on it.        *)
(*   fun f(p) { { if (p == 0) -"x"; return p; } }                          *)
(***************************************************************************)
MaxStatements == 2
MaxRuns == 2
Times == {1, 2}

Name(lexeme) == Tok("IDENTIFIER", lexeme)
Minus == Tok("MINUS", "-")
Paren == Tok("RIGHT_PAREN", ")")

\* -"x": the operand is not a number
BadNegation(b) == Unary(b + 1, Minus, Literal(b + 2, Str("x")))

FDeclaration ==
    Function(Name("f"), <<Name("p")>>,
        <<Block(<<If(Binary(901, Variable(902, Name("p")), Tok("EQUAL_EQUAL", "=="),
                            Literal(903, Num(0))),
                     Expression(BadNegation(903)), NoStmt),
                  Return(Tok("RETURN", "return"), Variable(906, Name("p")))>>)>>)

\* f(argument)
CallF(b, argument) == Call(b, Variable(b + 1, Name("f")), Paren, <<argument>>)

\* the statements of the programs; b is the first identity of its nodes
StatementAt(i, b) ==
    CASE i = 1 -> Var(Name("a"), Literal(b + 1, Num(1)))
      [] i = 2 -> PrintStmt(Variable(b + 1, Name("a")))
      [] i = 3 -> Expression(BadNegation(b))
      \* { var a = 2; { a = a + 1; print a; -"x"; } }
      [] i = 4 -> Block(<<Var(Name("a"), Literal(b + 1, Num(2))),
                          Block(<<Expression(Assign(b + 2, Name("a"),
                                      Binary(b + 3, Variable(b + 4, Name("a")),
                                             Tok("PLUS", "+"),
                                             Literal(b + 5, Num(1))))),
                                  PrintStmt(Variable(b + 6, Name("a"))),
                                  Expression(BadNegation(b + 6))>>)>>)
      \* { var b = a; { print b; } a = 3; }
      [] i = 5 -> Block(<<Var(Name("b"), Variable(b + 1, Name("a"))),
                          Block(<<PrintStmt(Variable(b + 2, Name("b")))>>),
                          Expression(Assign(b + 3, Name("a"),
                                            Literal(b + 4, Num(3))))>>)
      \* { print f(0); }
      [] i = 6 -> Block(<<PrintStmt(CallF(b + 1, Literal(b + 3, Num(0))))>>)
      \* print f(1);
      [] i = 7 -> PrintStmt(CallF(b + 1, Literal(b + 3, Num(1))))
      \* { { return a; } }
      [] i = 8 -> Block(<<Block(<<Return(Tok("RETURN", "return"),
                                         Variable(b + 1, Name("a")))>>)>>)
      \* while (a < 3) { a = a + 1; }
      [] i = 9 -> While(Binary(b + 1, Variable(b + 2, Name("a")), Tok("LESS", "<"),
                               Literal(b + 3, Num(3))),
                        Block(<<Expression(Assign(b + 4, Name("a"),
                                    Binary(b + 5, Variable(b + 6, Name("a")),
                                           Tok("PLUS", "+"),
                                           Literal(b + 7, Num(1)))))>>))
      \* fun g() { }
      [] i = 10 -> Function(Name("g"), <<>>, <<>>)
      \* { print 1 / 0; }
      [] i = 11 -> Block(<<PrintStmt(Binary(b + 1, Literal(b + 2, Num(1)),
                                            Tok("SLASH", "/"),
                                            Literal(b + 3, Num(0))))>>)
      \* if (clock() == a) print "now"; else print f();
      [] i = 12 -> If(Binary(b + 1, Call(b + 2, Variable(b + 3, Name("clock")),
                                         Paren, <<>>),
                             Tok("EQUAL_EQUAL", "=="), Variable(b + 4, Name("a"))),
                      PrintStmt(Literal(b + 5, Str("now"))),
                      PrintStmt(Call(b + 6, Variable(b + 7, Name("f")), Paren,
                                     <<>>)))

StatementKinds == 1..12

RECURSIVE ProgramsOf(_)
\* the statement lists of length n; statement k has the identities 10k+1..
ProgramsOf(n) ==
    IF n = 0 THEN {<<>>}
    ELSE {Append(p, StatementAt(i, 10 * n)) : p \in ProgramsOf(n - 1),
                                              i \in StatementKinds}

Programs == UNION {ProgramsOf(n) : n \in 1..MaxStatements}

\* Interpreter(): environment defaults to globals, locals to an empty dict
Interpreter == [environment |-> globals, locals |-> <<>>]

InitInterp ==
    /\ envs = define(standard_global_environment, globals, "f",
                     LoxFunction(FDeclaration, globals, FALSE))
    /\ interp = [Interpreter EXCEPT
                    !.locals = resolve(Resolver(Interpreter), <<FDeclaration>>).locals]
    /\ program \in Programs
    /\ history = <<>>
    /\ last = NoCall
    /\ IdleScan /\ IdlePlox /\ IdleParse /\ IdleRun /\ IdleUnit

\* Resolver(interpreter).resolve(program)
CallResolve ==
    /\ history = <<>>
    /\ LET rs == resolve(Resolver(interp), program) IN
       /\ interp' = [interp EXCEPT !.locals = rs.locals]
       /\ HAD_ERROR' = (HAD_ERROR \/ rs.errs # <<>>)
       /\ stderr' = stderr \o rs.errs
       /\ history' = Append(history, [op |-> "resolve", crashed |-> rs.crashed])
    /\ UNCHANGED <<envs, program, runVars, notInterp>>

\* interpreter.interpret(program); time.time() is now
CallInterpret ==
    /\ Len(SelectSeq(history, LAMBDA c : c.op = "interpret")) < MaxRuns
    /\ \E now \in Times :
         LET r == interpret([heap |-> envs, environment |-> interp.environment,
                             locals |-> interp.locals, out |-> <<>>,
                             blocks |-> <<>>, calls |-> <<>>, ran |-> <<>>,
                             lookups |-> <<>>, now |-> now],
                            program)
         IN /\ envs' = r.st.heap
            /\ interp' = [interp EXCEPT !.environment = r.st.environment]
            /\ stdout' = stdout \o r.st.out
            /\ stderr' = stderr \o r.reported
            /\ HAD_RUNTIME_ERROR' = (HAD_RUNTIME_ERROR \/ r.reported # <<>>)
            /\ history' = Append(history,
                   [op |-> "interpret", kind |-> r.kind, raised |-> r.raised,
                    failed |-> r.failed, ran |-> r.st.ran, blocks |-> r.st.blocks,
                    calls |-> r.st.calls, reported |-> r.reported,
                    before |-> interp.environment, after |-> r.st.environment,
                    printed |-> r.st.out, lookups |-> r.st.lookups])
    /\ UNCHANGED <<HAD_ERROR, program, notInterp>>

NextInterp == CallResolve \/ CallInterpret

SpecInterp == InitInterp /\ [][NextInterp]_vars

(***************************************************************************)
(* The resolver specification: a client hands a statement list to          *)
(* Resolver(Interpreter()).resolve.  The lists are scopes nested up to      *)
(* MaxScopes deep, blocks or a function body or the body of a method, that  *)
(* declare a in some of the scopes and refer to a, or to this, in the       *)
(* innermost one; expression 1 is the reference.                            *)
(***************************************************************************)
MaxScopes == 3

ThisToken == Tok("THIS", "this")

\* the reference of a program
Reference(kind) ==
    CASE kind = "Variable" -> Variable(1, Name("a"))
      [] kind = "Assign" -> Assign(1, Name("a"), Literal(2, Num(1)))
      [] kind = "This" -> This(1, ThisToken)

ReferenceKinds == {"Variable", "Assign"}

RECURSIVE ScopeBody(_, _, _, _)
\* the statements of the scope at this level, 0 being the top level: `var a;`
\* when D has the level, `var b;` in every scope but the top level, then the
\* reference when the level is ref and else a block, the scope of the next level
ScopeBody(level, ref, D, kind) ==
    (IF level \in D THEN <<Var(Name("a"), NoExpr)>> ELSE <<>>)
    \o (IF level >= 1 THEN <<Var(Name("b"), NoExpr)>> ELSE <<>>)
    \o (IF level = ref THEN <<Expression(Reference(kind))>>
        ELSE <<Block(ScopeBody(level + 1, ref, D, kind))>>)

\* blocks only
BlockProgram(ref, D, kind) == ScopeBody(0, ref, D, kind)

\* the scope of level 1 is the body of a function, which declares a as its
\* parameter when D has 1
FunctionProgram(ref, D, kind) ==
    (IF 0 \in D THEN <<Var(Name("a"), NoExpr)>> ELSE <<>>)
    \o <<Function(Name("f"), IF 1 \in D THEN <<Name("a")>> ELSE <<>>,
                  ScopeBody(1, ref, D \ {1}, kind))>>

\* class c { m() { ... this ... } }: the scope of level 1 is the one that holds
\* this, the scope of level 2 is the body of the method
ThisProgram(ref, method) ==
    <<Class(Name("c"), NoExpr,
            <<Function(Name(method), <<>>, ScopeBody(2, ref, {}, "This"))>>)>>

\* var name = name;  and  var name = other;
VarOf(name, id, other) == Var(Name(name), Variable(id, Name(other)))

\* programs with references inside initialisers
InitialiserProgram(i) ==
    CASE i = 1 -> <<Block(<<VarOf("a", 1, "a")>>)>>
      [] i = 2 -> <<VarOf("a", 1, "a")>>
      [] i = 3 -> <<Block(<<Var(Name("a"), Literal(2, Num(1))), VarOf("c", 1, "a")>>)>>
      [] i = 4 -> <<Block(<<VarOf("a", 1, "a"), VarOf("c", 3, "c")>>)>>
      [] i = 5 -> <<Block(<<Var(Name("a"), Literal(2, Num(1))),
                            Block(<<VarOf("a", 1, "a")>>)>>)>>
      [] i = 6 -> <<Function(Name("f"), <<>>, <<VarOf("a", 1, "a")>>)>>
      [] i = 7 -> <<Block(<<VarOf("a", 1, "a")>>), Block(<<VarOf("c", 3, "c")>>)>>
      [] i = 8 -> <<Block(<<Var(Name("a"), NoExpr), Block(<<VarOf("c", 1, "a")>>)>>)>>
      [] i = 9 -> <<Block(<<Var(Name("a"), Unary(2, Minus, Variable(1, Name("a"))))>>)>>
      [] i = 10 -> <<Block(<<VarOf("a", 1, "a"), Expression(Variable(3, Name("a")))>>)>>

InitialiserPrograms == 1..10

ResolverPrograms ==
    {InitialiserProgram(i) : i \in InitialiserPrograms} \cup
    UNION {{BlockProgram(ref, D, kind) : D \in SUBSET (0..ref), kind \in ReferenceKinds}
           : ref \in 0..MaxScopes}
    \cup UNION {{FunctionProgram(ref, D, kind)
                 : D \in SUBSET (0..ref), kind \in ReferenceKinds}
                : ref \in 1..MaxScopes}
    \cup {ThisProgram(ref, method) : ref \in 2..(MaxScopes + 1), method \in {"m", "init"}}
    \cup {BlockProgram(ref, {}, "This") : ref \in 0..MaxScopes}

InitResolve ==
    /\ envs = standard_global_environment
    /\ interp = Interpreter
    /\ program \in ResolverPrograms
    /\ history = <<>>
    /\ last = NoCall
    /\ IdleScan /\ IdlePlox /\ IdleParse /\ IdleRun /\ IdleUnit

NextResolve == CallResolve

SpecResolve == InitResolve /\ [][NextResolve]_vars

(***************************************************************************)
(* The evaluation specification: a client holds an Interpreter() and the   *)
(* statement  print l op r;  or  print op r;  for literals l and r, calls   *)
(* evaluate on its expression and interpret on the statement.              *)
(***************************************************************************)
LoxValues == {Nil, Bool(TRUE), Bool(FALSE), Num(0), Num(1), Num(2), Str(""),
              Str("a"), Str("1")}

BinaryOperators == EqualityOps \cup ComparisonOps \cup TermOps \cup FactorOps

\* print l op r;
BinaryProgram(left, op, right) ==
    <<PrintStmt(Binary(3, Literal(1, left), op, Literal(2, right)))>>

\* print op r;
UnaryProgram(op, right) == <<PrintStmt(Unary(3, op, Literal(2, right)))>>

EvalPrograms ==
    {BinaryProgram(l, op, r) : l \in LoxValues, op \in BinaryOperators, r \in LoxValues}
    \cup {UnaryProgram(op, r) : op \in PrefixOps, r \in LoxValues}

InitEval ==
    /\ envs = standard_global_environment
    /\ interp = Interpreter
    /\ program \in EvalPrograms
    /\ history = <<>>
    /\ last = NoCall
    /\ IdleScan /\ IdlePlox /\ IdleParse /\ IdleRun /\ IdleUnit

\* interpreter.evaluate(expr) for the expression of the statement
CallEvaluate ==
    /\ history = <<>>
    /\ \E r \in {evaluate([heap |-> envs, environment |-> interp.environment,
                           locals |-> interp.locals, out |-> <<>>,
                           blocks |-> <<>>, calls |-> <<>>, ran |-> <<>>,
                           lookups |-> <<>>, now |-> 1],
                          program[1].expression)} :
          /\ envs' = r.st.heap
          /\ history' = Append(history,
                 [op |-> "evaluate", kind |-> r.kind, value |-> r.value,
                  message |-> r.exc.message, heap |-> envs,
                  calls |-> r.st.calls, blocks |-> r.st.blocks,
                  lookups |-> r.st.lookups])
    /\ UNCHANGED <<interp, program, ploxVars, runVars, notInterp>>

NextEval == CallEvaluate \/ CallInterpret

SpecEval == InitEval /\ [][NextEval]_vars

(***************************************************************************)
(* The lookup specification: a client makes environments, each binding x   *)
(* or not: the globals and a chain of up to MaxChain environments whose    *)
(* outermost one encloses the globals or nothing (Environment()), makes an *)
(* Interpreter on the innermost one whose side-table holds a depth for     *)
(* expression 1 or nothing, and calls evaluate on  x  or on  x = 7.        *)
(* Environment e of the chain binds x to e where it binds it.              *)
(***************************************************************************)
MaxChain == 2

\* the heap: the globals, then the chain whose outermost environment encloses
\* root; the environments in bound bind x
LookupHeap(length, root, bound) ==
    [e \in 1..(length + 1) |->
        [enclosing |-> IF e = 1 THEN None ELSE IF e = 2 THEN root ELSE e - 1,
         values |-> IF e = 1
                    THEN IF e \in bound
                         THEN [clock |-> Clock, x |-> Num(e)]
                         ELSE [clock |-> Clock]
                    ELSE IF e \in bound THEN [x |-> Num(e)] ELSE <<>>]]

\* the number of enclosing links above environment e
RECURSIVE Links(_, _)
Links(h, e) == IF h[e].enclosing = None THEN 0 ELSE 1 + Links(h, h[e].enclosing)

NoDepth == 0 - 1

LookupPrograms ==
    {<<Expression(Variable(1, Name("x")))>>,
     <<Expression(Assign(1, Name("x"), Literal(2, Num(7))))>>}

InitLookup ==
    /\ \E length \in 0..MaxChain, root \in {None, globals} :
         \E bound \in SUBSET (1..(length + 1)) :
            /\ envs = LookupHeap(length, root, bound)
            /\ \E depth \in {NoDepth} \cup (0..Links(envs, length + 1)) :
                  interp = [environment |-> length + 1,
                            locals |-> IF depth = NoDepth THEN <<>>
                                       ELSE [id \in {1} |-> depth]]
    /\ program \in LookupPrograms
    /\ history = <<>>
    /\ last = NoCall
    /\ IdleScan /\ IdlePlox /\ IdleParse /\ IdleRun /\ IdleUnit

NextLookup == CallEvaluate

SpecLookup == InitLookup /\ [][NextLookup]_vars

(***************************************************************************)
(* The call specification: a client holds an Interpreter() whose globals   *)
(* bind two function objects the client has made, k and g.  g is made from  *)
(* one of the declarations  fun g(p) { body }  and is an initialiser bound  *)
(* to an instance, or no initialiser; the program is  print g(argument);    *)
(* The client calls evaluate on the call and interpret on the statement.    *)
(*   fun k() { return 1; }                                                  *)
(***************************************************************************)
ReturnToken == Tok("RETURN", "return")

KDeclaration == Function(Name("k"), <<>>, <<Return(ReturnToken, Literal(801, Num(1)))>>)

\* the bodies of g
GBody(b) ==
    CASE b = 1 -> <<>>
      [] b = 2 -> <<Return(ReturnToken, Literal(811, Num(1)))>>
      [] b = 3 -> <<Return(ReturnToken, NoExpr)>>
      [] b = 4 -> <<Block(<<Block(<<Return(ReturnToken, Literal(811, Str("a")))>>)>>),
                    Return(ReturnToken, Literal(812, Num(5)))>>
      [] b = 5 -> <<While(Literal(811, Bool(TRUE)),
                          Block(<<Return(ReturnToken, Literal(812, Num(2)))>>))>>
      [] b = 6 -> <<If(Binary(811, Variable(812, Name("p")), Tok("EQUAL_EQUAL", "=="),
                              Literal(813, Num(0))),
                       Return(ReturnToken, Variable(814, Name("p"))), NoStmt)>>
      [] b = 7 -> <<Var(Name("x"), Literal(811, Num(1)))>>
      [] b = 8 -> <<Expression(Call(811, Variable(812, Name("k")), Paren, <<>>)),
                    Return(ReturnToken, Literal(813, Num(3)))>>
      [] b = 9 -> <<If(Variable(811, Name("p")), Return(ReturnToken, NoExpr), NoStmt),
                    Var(Name("x"), Literal(812, Num(1)))>>

GBodies == 1..9

GDeclaration(b) == Function(Name("g"), <<Name("p")>>, GBody(b))

TheInstance == LoxInstance("c", 1)

\* the globals with k and g, and the closure of g when it is an initialiser
CallHeap(b, is_initialiser) ==
    LET heap == define(standard_global_environment, globals, "k",
                       LoxFunction(KDeclaration, globals, FALSE))
        g == LoxFunction(GDeclaration(b), globals, is_initialiser)
    IN IF is_initialiser
       THEN The({ define(bound.heap, globals, "g", bound.function)
                  : bound \in {bind(heap, g, TheInstance)} })
       ELSE define(heap, globals, "g", g)

Arguments == {Nil, Bool(TRUE), Num(0), Num(1), Str("a")}

\* print g(argument);
CallProgram(argument) ==
    <<PrintStmt(Call(1, Variable(2, Name("g")), Paren, <<Literal(3, argument)>>))>>

InitCall ==
    /\ \E b \in GBodies, is_initialiser \in BOOLEAN :
          /\ envs = CallHeap(b, is_initialiser)
          /\ interp = [Interpreter EXCEPT
                          !.locals = resolve(Resolver(Interpreter),
                                             <<GDeclaration(b)>>).locals]
    /\ program \in {CallProgram(argument) : argument \in Arguments}
    /\ history = <<>>
    /\ last = NoCall
    /\ IdleScan /\ IdlePlox /\ IdleParse /\ IdleRun /\ IdleUnit

NextCall == CallEvaluate \/ CallInterpret

SpecCall == InitCall /\ [][NextCall]_vars

(***************************************************************************)
(* The scope specification: programs of nested scopes that the client has  *)
(* resolved with Resolver(Interpreter()).resolve and then interprets.  The *)
(* scopes are blocks, or the body of a function f, or the body of a method *)
(* m of a class declared in a block; a is declared in the scopes of D and  *)
(* referred to in the innermost one.  The function objects are made by the *)
(* client, f with the globals as its closure and m with the environment of *)
(* the block, bound to an instance; the program then is the call  f(0);    *)
(*  f();  or  m();                                                          *)
(***************************************************************************)
\* fun f(a) { ... } or fun f() { ... }: the body is the scope of level 1
FDeclarationOf(ref, D, kind) ==
    Function(Name("f"), IF 1 \in D THEN <<Name("a")>> ELSE <<>>,
             ScopeBody(1, ref, D \ {1}, kind))

\* m() { ... }: the body is the scope of level 2
MDeclarationOf(ref, D, kind) == Function(Name("m"), <<>>, ScopeBody(2, ref, D, kind))

\* { var a; class c { m() { ... } } }, the block declaring a when D has 0
ClassInBlock(ref, D, kind) ==
    <<Block((IF 0 \in D THEN <<Var(Name("a"), NoExpr)>> ELSE <<>>)
            \o <<Class(Name("c"), NoExpr, <<MDeclarationOf(ref, D \ {0, 1}, kind)>>)>>)>>

\* callee(arguments);
CallStatement(callee, arguments) ==
    <<Expression(Call(50, Variable(51, Name(callee)), Paren, arguments))>>

\* the globals, with a when D has 0
ScopeGlobals(D) ==
    IF 0 \in D THEN define(standard_global_environment, globals, "a", Nil)
    ELSE standard_global_environment

\* the globals and the environment of the block of ClassInBlock
BlockHeap(D) ==
    IF 0 \in D
    THEN define(Append(standard_global_environment, Environment(globals)), 2, "a", Nil)
    ELSE Append(standard_global_environment, Environment(globals))

ScopeShapes == {"blocks", "function", "method"}

InitScope ==
    /\ \E shape \in ScopeShapes, kind \in ReferenceKinds :
        \E ref \in (IF shape = "method" THEN 2 ELSE 1)..MaxScopes :
         \E D \in SUBSET (0..ref) :
           CASE shape = "blocks" ->
                  /\ envs = standard_global_environment
                  /\ interp = Interpreter
                  /\ program = BlockProgram(ref, D, kind)
             [] shape = "function" ->
                  /\ envs = define(ScopeGlobals(D), globals, "f",
                                   LoxFunction(FDeclarationOf(ref, D, kind), globals,
                                               FALSE))
                  /\ interp = [Interpreter EXCEPT !.locals =
                                  resolve(Resolver(Interpreter),
                                          <<FDeclarationOf(ref, D, kind)>>).locals]
                  /\ resolve(Resolver(Interpreter),
                             <<FDeclarationOf(ref, D, kind)>>).errs = <<>>
                  /\ program = CallStatement("f", IF 1 \in D
                                                  THEN <<Literal(52, Num(0))>>
                                                  ELSE <<>>)
             [] shape = "method" ->
                  /\ \E bound \in {bind(BlockHeap(D),
                                        LoxFunction(MDeclarationOf(ref, D \ {0, 1}, kind),
                                                    2, FALSE),
                                        TheInstance)} :
                        envs = define(bound.heap, globals, "m", bound.function)
                  /\ interp = [Interpreter EXCEPT !.locals =
                                  resolve(Resolver(Interpreter),
                                          ClassInBlock(ref, D, kind)).locals]
                  /\ resolve(Resolver(Interpreter),
                             ClassInBlock(ref, D, kind)).errs = <<>>
                  /\ program = CallStatement("m", <<>>)
    /\ history = <<>>
    /\ last = NoCall
    /\ IdleScan /\ IdlePlox /\ IdleParse /\ IdleRun /\ IdleUnit

NextScope == CallResolve \/ CallInterpret

SpecScope == InitScope /\ [][NextScope]_vars

(***************************************************************************)
(* The call-order specification: a client holds an Interpreter() whose     *)
(* globals bind a string s, empty at first, and a function object h the    *)
(* client has made, and calls evaluate on a call  callee(arguments).  The  *)
(* callee is h, clock, nil, a number, or  s = s + "c"  (a string); an      *)
(* argument at place i is  s = s + "i",  the literal 0, or  h = nil.       *)
(*   fun h(p, q) { s = s + "b"; return p; }                                *)
(***************************************************************************)
MaxActuals == 3

\* s = s + "text", with the node identities from id on
AppendTo(id, text) ==
    Assign(id, Name("s"),
           Binary(id + 1, Variable(id + 2, Name("s")), Tok("PLUS", "+"),
                  Literal(id + 3, Str(text))))

HDeclaration ==
    Function(Name("h"), <<Name("p"), Name("q")>>,
             <<Expression(AppendTo(900, "b")),
               Return(ReturnToken, Variable(910, Name("p")))>>)

CalleeKinds == {"h", "clock", "nil", "number", "string"}
ArgumentKinds == {"append", "literal", "clobber"}

CalleeOf(kind) ==
    CASE kind = "h" -> Variable(2, Name("h"))
      [] kind = "clock" -> Variable(2, Name("clock"))
      [] kind = "nil" -> Literal(2, Nil)
      [] kind = "number" -> Literal(2, Num(1))
      [] kind = "string" -> AppendTo(2, "c")

ArgumentOf(kind, i) ==
    CASE kind = "append" -> AppendTo(10 * i, ToString(i))
      [] kind = "literal" -> Literal(10 * i, Num(0))
      [] kind = "clobber" -> Assign(10 * i, Name("h"), Literal(10 * i + 1, Nil))

\* callee(arguments);
OrderProgram(callee, kinds) ==
    <<Expression(Call(1, CalleeOf(callee), Paren,
                      [i \in DOMAIN kinds |-> ArgumentOf(kinds[i], i)]))>>

OrderPrograms ==
    {OrderProgram(callee, kinds) :
        callee \in CalleeKinds,
        kinds \in UNION {[1..n -> ArgumentKinds] : n \in 0..MaxActuals}}

InitOrder ==
    /\ envs = define(define(standard_global_environment, globals, "s", Str("")),
                     globals, "h", LoxFunction(HDeclaration, globals, FALSE))
    /\ interp = [Interpreter EXCEPT
                    !.locals = resolve(Resolver(Interpreter), <<HDeclaration>>).locals]
    /\ program \in OrderPrograms
    /\ history = <<>>
    /\ last = NoCall
    /\ IdleScan /\ IdlePlox /\ IdleParse /\ IdleRun /\ IdleUnit

NextOrder == CallEvaluate

SpecOrder == InitOrder /\ [][NextOrder]_vars

(***************************************************************************)
(* plox/classes.py: LoxClass and LoxInstance.  A class is a record whose   *)
(* methods dict is a function from names to LoxFunction objects and whose  *)
(* superclass is a class or NoClass (Python None); find_method returns nil *)
(* for Python's None.                                                      *)
(***************************************************************************)
NoClass == [t |-> "None"]

\* LoxClass(name, superclass, methods)
LoxClass(name, superclass, methods) ==
    [t |-> "class", name |-> name, superclass |-> superclass, methods |-> methods]

\* a variant of find_method that asks the superclass before the class's own dict
RECURSIVE find_method_super_first(_, _)
find_method_super_first(klass, name) ==
    The({ IF up.t # "nil" THEN up
          ELSE IF name \in DOMAIN klass.methods THEN klass.methods[name] ELSE Nil
          : up \in {IF klass.superclass.t # "None"
                    THEN find_method_super_first(klass.superclass, name)
                    ELSE Nil} })

RECURSIVE find_method(_, _)
\* LoxClass.find_method: the class's own dict, else the superclass, else None
find_method(klass, name) ==
    IF name \in DOMAIN klass.methods
    THEN klass.methods[name]
    ELSE IF klass.superclass.t # "None"
         THEN find_method(klass.superclass, name)
         ELSE Nil

\* LoxInstance.get on the object self (klass, fields, and the value that
\* stands for the object); the heap is returned with the outcome because bind
\* makes an Environment
instance_get(heap, self, name) ==
    IF name.lexeme \in DOMAIN self.fields
    THEN [heap |-> heap, out |-> Returned(self.fields[name.lexeme])]
    ELSE The({ IF method.t # "nil"
               THEN The({ [heap |-> bound.heap, out |-> Returned(bound.function)]
                          : bound \in {bind(heap, method, self.value)} })
               ELSE [heap |-> heap,
                     out |-> LoxRuntimeError("Undefined property '" \o name.lexeme
                                             \o "'.")]
               : method \in {find_method(self.klass, name.lexeme)} })

\* LoxInstance.set: self.fields[name.lexeme] = value
instance_set(self, name, value) ==
    [self EXCEPT !.fields =
        [k \in (DOMAIN self.fields) \cup {name.lexeme} |->
            IF k = name.lexeme THEN value ELSE self.fields[k]]]

(***************************************************************************)
(* The instance specification: a client holds an instance of the last of   *)
(* the classes A, B < A, C < B, each with some of the methods m and init,  *)
(* whose closure is the global environment, and calls get and set on it.   *)
(***************************************************************************)
MaxClasses == 3
MaxGets == 2
MethodNames == {"m", "init"}
FieldNames == {"m", "x"}
PropertyNames == {"m", "init", "x"}
FieldValues == {Nil, Num(1)}
ClassNames == <<"A", "B", "C", "D">>

\* the method called name of the class at a level: it returns the level
MethodOf(level, name) ==
    LoxFunction(Function(Name(name), <<>>,
                         <<Return(ReturnToken, Literal(820 + level, Num(level)))>>),
                globals, name = "init")

\* the methods dict of a class
MethodsOf(level, names) == [name \in names |-> MethodOf(level, name)]

RECURSIVE ClassOf(_, _)
\* the class at a level of the hierarchy whose classes have the methods names[i]
ClassOf(level, names) ==
    LoxClass(ClassNames[level],
             IF level = 1 THEN NoClass ELSE ClassOf(level - 1, names),
             MethodsOf(level, names[level]))

\* the dicts a client can give the instance as fields
FieldDicts == UNION {[names -> FieldValues] : names \in SUBSET FieldNames}

NoGet == [op |-> "none"]

InitInstance ==
    /\ envs = standard_global_environment
    /\ \E depth \in 1..MaxClasses :
         \E names \in [1..depth -> SUBSET MethodNames] :
           \E fields \in FieldDicts :
              inst = [klass |-> ClassOf(depth, names), fields |-> fields,
                      value |-> LoxInstance(ClassNames[depth], 1),
                      gets |-> 0, got |-> NoGet]
    /\ last = NoCall
    /\ IdleScan /\ IdlePlox /\ IdleParse /\ IdleInterp /\ IdleRun
    /\ io = <<>> /\ main = <<>>

\* instance.get(name)
InstanceGet ==
    /\ inst.gets < MaxGets
    /\ \E name \in PropertyNames :
         \E r \in {instance_get(envs, inst, Name(name))} :
            /\ envs' = r.heap
            /\ inst' = [inst EXCEPT !.gets = @ + 1,
                           !.got = [op |-> "get", name |-> name, out |-> r.out,
                                    fields |-> inst.fields, heap |-> envs]]
    /\ UNCHANGED <<last, scanVars, ploxVars, parseVars, runVars, interpVars,
                   driverVars, io, main>>

\* instance.set(name, value)
InstanceSet ==
    /\ inst.gets < MaxGets
    /\ \E name \in FieldNames, value \in FieldValues :
         inst' = [instance_set(inst, Name(name), value) EXCEPT
                     !.got = [op |-> "set", name |-> name, out |-> Returned(Nil),
                              fields |-> inst.fields, heap |-> envs]]
    /\ UNCHANGED <<envs, last, scanVars, ploxVars, parseVars, runVars, interpVars,
                   driverVars, io, main>>

NextInstance == InstanceGet \/ InstanceSet

SpecInstance == InitInstance /\ [][NextInstance]_vars

(***************************************************************************)
(* plox/io.py: PeekableTextIO.  The stream is the text and the position of *)
(* the next character to read; the buffer is a tuple of characters.  The   *)
(* methods map the object to the object after the call and the value       *)
(* returned.                                                               *)
(***************************************************************************)
\* stream.read(n): up to n characters from the position, which moves past them
read(stream, n) ==
    LET m == IF stream.pos + n > Len(stream.text) THEN Len(stream.text) - stream.pos
             ELSE n
    IN [stream |-> [stream EXCEPT !.pos = @ + m],
        data |-> SubSeq(stream.text, stream.pos + 1, stream.pos + m)]

\* PeekableTextIO(stream, buffer) for buffer >= 1
PeekableTextIO(stream, buffer) ==
    [stream |-> read(stream, buffer).stream,
     buffer |-> read(stream, buffer).data,
     line |-> 1]

\* a variant of advance that does not read the next character into the buffer
io_advance_no_refill(self) ==
    IF self.buffer = <<>>
    THEN [self |-> self, value |-> ""]
    ELSE [self |-> [self EXCEPT !.buffer = Tail(@),
                                !.line = IF Head(self.buffer) = "\n" THEN @ + 1 ELSE @],
          value |-> Head(self.buffer)]

\* PeekableTextIO.advance
io_advance(self) ==
    IF self.buffer = <<>>
    THEN [self |-> self, value |-> ""]
    ELSE [self |-> [stream |-> read(self.stream, 1).stream,
                    buffer |-> Tail(self.buffer) \o read(self.stream, 1).data,
                    line |-> IF Head(self.buffer) = "\n" THEN self.line + 1
                             ELSE self.line],
          value |-> Head(self.buffer)]

\* PeekableTextIO.peek: the IndexError of a distance past the buffer gives ""
io_peek(self, distance) ==
    IF distance + 1 \in DOMAIN self.buffer THEN self.buffer[distance + 1] ELSE ""

\* PeekableTextIO.match
io_match(self, char) ==
    IF io_peek(self, 0) = char
    THEN [self |-> io_advance(self).self, value |-> TRUE]
    ELSE [self |-> self, value |-> FALSE]

(***************************************************************************)
(* The stream specification: a client makes a PeekableTextIO over a text   *)
(* with a buffer size and calls advance, peek and match on it              *)
(* (tests/test_peekable_text_io.py).  io holds the object, the text and    *)
(* size it was made with, the values advance has returned (inside match    *)
(* too) and the last call.                                                 *)
(***************************************************************************)
MaxTextLen == 3
MaxBuffer == 3
IOChars == {"a", "b", "\n"}
\* what match is called with: a character, or Python's None
NoChar == "None"
Texts == UNION {[1..n -> IOChars] : n \in 0..MaxTextLen}

InitIO ==
    /\ \E text \in Texts, size \in 1..MaxBuffer :
          io = [self |-> PeekableTextIO([text |-> text, pos |-> 0], size),
                text |-> text, size |-> size, out |-> <<>>,
                call |-> [op |-> "new"]]
    /\ inst = <<>> /\ main = <<>>
    /\ IdleEnv /\ IdleScan /\ IdlePlox /\ IdleParse /\ IdleInterp /\ IdleRun

notIO == <<envVars, scanVars, ploxVars, parseVars, runVars, interpVars, driverVars,
           inst, main>>

\* stream.advance(), until the empty string has been returned twice
IOAdvance ==
    /\ Len(io.out) < Len(io.text) + 2
    /\ \E r \in {io_advance(io.self)} :
          io' = [io EXCEPT !.self = r.self, !.out = Append(@, r.value),
                           !.call = [op |-> "advance", value |-> r.value,
                                     before |-> io.self, out |-> io.out]]
    /\ UNCHANGED notIO

\* stream.peek(distance)
IOPeek ==
    /\ \E distance \in 0..MaxBuffer :
          io' = [io EXCEPT !.call = [op |-> "peek", distance |-> distance,
                                     value |-> io_peek(io.self, distance),
                                     before |-> io.self, out |-> io.out]]
    /\ UNCHANGED notIO

\* stream.match(char)
IOMatch ==
    /\ \E char \in IOChars \cup {NoChar} : \E r \in {io_match(io.self, char)} :
          io' = [io EXCEPT !.self = r.self,
                           !.out = IF r.value
                                   THEN Append(@, io_advance(io.self).value)
                                   ELSE @,
                           !.call = [op |-> "match", char |-> char,
                                     value |-> r.value,
                                     before |-> io.self, out |-> io.out]]
    /\ UNCHANGED notIO

NextIO == IOAdvance \/ IOPeek \/ IOMatch

SpecIO == InitIO /\ [][NextIO]_vars

(***************************************************************************)
(* plox/cli.py: Plox.run.  One step of the model is one stage of run: the  *)
(* scanner, the parser, the resolver, the interpreter; runpc says which    *)
(* stage run has reached and job holds run's local variables.              *)
(***************************************************************************)
RECURSIVE scan_tokens(_)
\* Scanner.scan_tokens
scan_tokens(s) ==
    IF is_at_end(s)
    THEN [s EXCEPT !.tokens = Append(@, Token("EOF", "", NoLiteral, s.line))]
    ELSE scan_tokens(scan_token([s EXCEPT !.start = s.current]))

\* the characters of a text
Chars(text) == [i \in 1..Len(text) |-> SubSeq(text, i, i)]

\* scan_tokens(source) of plox.scanner, which run imports: the tokens of the
\* source followed by an end-of-file token, the lexical errors reported
\* through Plox.error
scan_source(source) == scan_tokens(Scanner(Chars(source)))

\* `if cls.HAD_ERROR: return` after the parser
after_parse(had_error) == IF had_error THEN "returned" ELSE "parsed"

\* a variant of run without the check after the resolver
after_resolve_unchecked(had_error) == "resolved"

\* `if cls.HAD_ERROR: return` after the resolver
after_resolve(had_error) == IF had_error THEN "returned" ELSE "resolved"

MaxLines == 2

\* sources that are one for statement
ForSources == {"for (;;) a = 1;", "for (var i = 0; i < 1; i = i + 1) a = i;"}

\* sources of two declarations with a parse error each: the first error is at
\* a `;`, two tokens before a `;`, or before the keyword var or fun
TwoErrorSources == {"var ; var ;", "var a 1 2; var ;", "var a 1 var ;",
                    "var a 1 fun ;"}

\* the sources handed to run
RunSources ==
    ForSources \cup TwoErrorSources \cup
    {"", "var a = 1;", "var b = a;", "var a = 1; @", "@", "var ;", "var a = ;",
     "var a 1 2;", "fun f() { var a = a; }", "fun f(a, a) { }", "fun f() { }",
     "print 1;", "var a = clock();", "var s = \"x\" + 1;",
     "var c = 1; fun f(a, a) { }"}

NoJob == [source |-> "", tokens |-> <<>>, statements |-> <<>>, stages |-> <<>>,
          interpreted |-> FALSE, stderr0 |-> 0, stdout0 |-> <<>>,
          heap0 |-> <<>>]

InitRun ==
    /\ IdleRun /\ IdleUnit
    /\ IdleEnv /\ IdleScan /\ IdlePlox /\ IdleParse /\ IdleInterp

\* run(source) up to the scanner: the interpreter is made on the first call,
\* then the source is scanned
RunScan ==
    /\ runpc \in {"idle", "returned", "raised"}
    /\ lines < MaxLines
    /\ IF main = <<>> THEN TRUE ELSE main.pc \in {"idle", "run"}
    /\ main' = IF main = <<>> THEN main
               ELSE IF main.pc = "idle" THEN main
               ELSE [main EXCEPT !.pc = "running", !.ran = @ + 1]
    /\ \E source \in RunSources : \E s \in {scan_source(source)} :
         /\ job' = [NoJob EXCEPT !.source = source, !.tokens = s.tokens,
                                 !.stages = <<"scanner">>,
                                 !.stderr0 = Len(stderr), !.stdout0 = stdout,
                                 !.heap0 = IF envs = <<>>
                                           THEN standard_global_environment
                                           ELSE envs]
         /\ HAD_ERROR' = (HAD_ERROR \/ s.errs # <<>>)
         /\ stderr' = stderr \o s.errs
    /\ interp' = IF interp = <<>> THEN Interpreter ELSE interp
    /\ envs' = IF envs = <<>> THEN standard_global_environment ELSE envs
    /\ lines' = lines + 1
    /\ runpc' = "scanned"
    /\ UNCHANGED <<last, scanVars, parseVars, runVars, program, history, inst, io>>

\* statements = Parser(tokens).parse(), and the check of HAD_ERROR after it
RunParse ==
    /\ runpc = "scanned"
    /\ \E r \in {parse(Parser(job.tokens))} :
       /\ job' = [job EXCEPT !.statements = r.statements,
                             !.stages = Append(@, "parser")]
       /\ HAD_ERROR' = (HAD_ERROR \/ r.p.errs # <<>>)
       /\ stderr' = stderr \o r.p.errs
       /\ runpc' = IF r.kind # "ok" THEN "raised"
                   ELSE after_parse(HAD_ERROR \/ r.p.errs # <<>>)
    /\ UNCHANGED <<envs, last, scanVars, parseVars, runVars, interpVars, lines,
                   unitVars>>

\* Resolver(cls.interpreter).resolve(statements), and the check of HAD_ERROR
\* after it
RunResolve ==
    /\ runpc = "parsed"
    /\ \E rs \in {resolve(Resolver(interp), job.statements)} :
       /\ interp' = [interp EXCEPT !.locals = rs.locals]
       /\ HAD_ERROR' = (HAD_ERROR \/ rs.errs # <<>>)
       /\ stderr' = stderr \o rs.errs
       /\ runpc' = IF rs.crashed THEN "raised"
                   ELSE after_resolve(HAD_ERROR \/ rs.errs # <<>>)
    /\ job' = [job EXCEPT !.stages = Append(@, "resolver")]
    /\ UNCHANGED <<envs, last, scanVars, parseVars, runVars, program, history,
                   lines, unitVars>>

\* cls.interpreter.interpret(statements); time.time() is now
RunInterpret ==
    /\ runpc = "resolved"
    /\ \E now \in Times :
         \E r \in {interpret([heap |-> envs, environment |-> interp.environment,
                              locals |-> interp.locals, out |-> <<>>,
                              blocks |-> <<>>, calls |-> <<>>, ran |-> <<>>,
                              lookups |-> <<>>, now |-> now],
                             job.statements)} :
            /\ envs' = r.st.heap
            /\ interp' = [interp EXCEPT !.environment = r.st.environment]
            /\ stdout' = stdout \o r.st.out
            /\ stderr' = stderr \o r.reported
            /\ HAD_RUNTIME_ERROR' = (HAD_RUNTIME_ERROR \/ r.reported # <<>>)
            /\ runpc' = IF r.kind = "ok" THEN "returned" ELSE "raised"
    /\ job' = [job EXCEPT !.stages = Append(@, "interpreter"),
                          !.interpreted = TRUE]
    /\ UNCHANGED <<HAD_ERROR, last, scanVars, parseVars, program, history, lines,
                   unitVars>>

NextRun == RunScan \/ RunParse \/ RunResolve \/ RunInterpret

SpecRun == InitRun /\ [][NextRun]_vars

(***************************************************************************)
(* The declaration specification: Parser(tokens).parse() one turn of its   *)
(* loop at a time.  A step is one call of declaration() made while the     *)
(* parser is not at the end; parsed holds how the call ended and where the *)
(* cursor was before it.  The token lists are the short lists over the     *)
(* tokens of declarations and what the scanner makes of the sources of run.*)
(***************************************************************************)
MaxDeclTokens == 3

DeclAlphabet == {Tok("VAR", "var"), Tok("FUN", "fun"), Tok("FOR", "for"),
                 Operand(1), NumberTok, Tok("EQUAL", "="), Tok("SEMICOLON", ";"),
                 Tok("LEFT_PAREN", "("), Tok("RIGHT_PAREN", ")")}

RECURSIVE DeclLists(_)
DeclLists(n) ==
    IF n = 0 THEN {<<>>}
    ELSE LET shorter == DeclLists(n - 1) IN
         shorter \cup {Append(w, t) : w \in shorter, t \in DeclAlphabet}

DeclTokenLists ==
    {ts \o <<Eof>> : ts \in DeclLists(MaxDeclTokens)}
    \cup {scan_source(source).tokens : source \in RunSources}

InitDecl ==
    /\ parser \in {Parser(tokens) : tokens \in DeclTokenLists}
    /\ parsed = <<>>
    /\ IdleEnv /\ IdleScan /\ IdlePlox /\ IdleInterp /\ IdleRun /\ IdleUnit

\* statements.append(self.declaration()) in the loop of parse, which goes on
\* while not self.is_at_end; an exception other than LoxParseError leaves parse
CallDeclaration ==
    /\ ~parser_is_at_end(parser)
    /\ IF parsed = <<>> THEN TRUE ELSE parsed.kind = "ok"
    /\ \E r \in {declaration(parser)} :
       /\ parser' = [r.p EXCEPT !.errs = <<>>]
       /\ parsed' = [kind |-> r.kind, expr |-> r.expr, before |-> parser.current,
                     errors |-> Len(r.p.errs)]
       /\ HAD_ERROR' = (HAD_ERROR \/ r.p.errs # <<>>)
       /\ stderr' = stderr \o r.p.errs
    /\ UNCHANGED notParse

NextDecl == CallDeclaration

SpecDecl == InitDecl /\ [][NextDecl]_vars

(***************************************************************************)
(* plox/cli.py: Plox.run_file and Plox.run_prompt.  The flags are class    *)
(* variables, so they are what earlier calls in the process left: a client *)
(* calls run some times (tests/test_examples.py) and then run_file or      *)
(* run_prompt.  main holds the entry point called, where it is (pc), the   *)
(* number of calls of run it made and the code sys.exit was called with.   *)
(***************************************************************************)
NoExit == 0 - 1

InitMain ==
    /\ IdleRun /\ inst = <<>> /\ io = <<>>
    /\ main = [entry |-> "none", pc |-> "idle", ran |-> 0, exit |-> NoExit]
    /\ IdleEnv /\ IdleScan /\ IdlePlox /\ IdleParse /\ IdleInterp

notMain == <<envVars, scanVars, parseVars, interpVars, driverVars, inst, io>>

\* run_file(path): the file is opened and run is called on it
RunFile ==
    /\ main.pc = "idle"
    /\ runpc \in {"idle", "returned", "raised"}
    /\ lines < MaxLines
    /\ main' = [main EXCEPT !.entry = "run_file", !.pc = "run"]
    /\ UNCHANGED <<ploxVars, runVars, notMain>>

\* run_file after run: sys.exit(65), sys.exit(70) or the end of the method;
\* an exception that left run leaves run_file
RunFileExit ==
    /\ main.entry = "run_file" /\ main.pc = "running"
    /\ runpc \in {"returned", "raised"}
    /\ main' = IF runpc = "raised" THEN [main EXCEPT !.pc = "raised"]
               ELSE IF HAD_ERROR THEN [main EXCEPT !.pc = "exited", !.exit = 65]
               ELSE IF HAD_RUNTIME_ERROR
                    THEN [main EXCEPT !.pc = "exited", !.exit = 70]
               ELSE [main EXCEPT !.pc = "returned"]
    /\ UNCHANGED <<ploxVars, runVars, notMain>>

\* run_prompt(): the loop is entered and waits in input("> ")
RunPrompt ==
    /\ main.pc = "idle"
    /\ runpc \in {"idle", "returned", "raised"}
    /\ main' = [main EXCEPT !.entry = "run_prompt", !.pc = "input"]
    /\ UNCHANGED <<ploxVars, runVars, notMain>>

\* input("> ") returns a line: run is called on it
PromptLine ==
    /\ main.entry = "run_prompt" /\ main.pc = "input"
    /\ lines < MaxLines
    /\ main' = [main EXCEPT !.pc = "run"]
    /\ UNCHANGED <<ploxVars, runVars, notMain>>

\* run_prompt after run: cls.HAD_ERROR = False and the next turn of the loop;
\* an exception that left run is no EOFError and leaves run_prompt
PromptReset ==
    /\ main.entry = "run_prompt" /\ main.pc = "running"
    /\ runpc \in {"returned", "raised"}
    /\ IF runpc = "raised"
       THEN /\ main' = [main EXCEPT !.pc = "raised"]
            /\ UNCHANGED HAD_ERROR
       ELSE /\ main' = [main EXCEPT !.pc = "input"]
            /\ HAD_ERROR' = FALSE
    /\ UNCHANGED <<stderr, runVars, notMain>>

\* input("> ") raises EOFError at the end of the input: run_prompt returns
PromptEOF ==
    /\ main.entry = "run_prompt" /\ main.pc = "input"
    /\ main' = [main EXCEPT !.pc = "returned"]
    /\ UNCHANGED <<ploxVars, runVars, notMain>>

NextMain ==
    \/ RunScan \/ RunParse \/ RunResolve \/ RunInterpret
    \/ RunFile \/ RunFileExit \/ RunPrompt \/ PromptLine \/ PromptReset \/ PromptEOF

SpecMain == InitMain /\ [][NextMain]_vars

(***************************************************************************)
(* Claims about the parser                                                 *)
(***************************************************************************)
RECURSIVE Shape(_)
\* a node without the identities: its kind, its operator or name, its operands
Shape(e) ==
    CASE e.k = "Literal" -> <<"Literal", e.value>>
      [] e.k = "Variable" -> <<"Variable", e.name.lexeme>>
      [] e.k = "Assign" -> <<"Assign", e.name.lexeme, Shape(e.value)>>
      [] e.k = "Unary" -> <<"Unary", e.operator.type, Shape(e.right)>>
      [] e.k = "Binary" -> <<"Binary", Shape(e.left), e.operator.type, Shape(e.right)>>
      [] e.k = "Logical" ->
            <<"Logical", Shape(e.left), e.operator.type, Shape(e.right)>>
      [] e.k = "Grouping" -> <<"Grouping", Shape(e.expression)>>
      [] e.k = "Call" ->
            <<"Call", Shape(e.callee), [i \in DOMAIN e.arguments |->
                                           Shape(e.arguments[i])]>>
      [] OTHER -> <<"none">>

\* the precedence levels of the grammar
Levels == {EqualityOps, ComparisonOps, TermOps, FactorOps, AndOps, OrOps}
NodeKind(op) == IF op \in AndOps \cup OrOps THEN "Logical" ELSE "Binary"
VarShape(i) == <<"Variable", OperandNames[i]>>

\* C10: for operators op1, op2 of one precedence level, a op1 b op2 c parses as
\* (a op1 b) op2 c; a chain of unary operators u1 u2 x parses as u1 (u2 x); and
\* a = b = c parses as a = (b = c).
C10_Associativity ==
    parsed # <<>> =>
        LET ts == parser.tokens IN
        /\ \A L \in Levels : \A op1 \in L, op2 \in L :
              ts = <<Operand(1), op1, Operand(2), op2, Operand(3), Eof>> =>
                 /\ parsed.kind = "ok"
                 /\ parser.current = 5
                 /\ ~HAD_ERROR
                 /\ Shape(parsed.expr) =
                       <<NodeKind(op2), <<NodeKind(op1), VarShape(1), op1.type, VarShape(2)>>,
                         op2.type, VarShape(3)>>
        /\ \A u1 \in PrefixOps, u2 \in PrefixOps :
              ts = <<u1, u2, Operand(1), Eof>> =>
                 /\ parsed.kind = "ok"
                 /\ parser.current = 3
                 /\ ~HAD_ERROR
                 /\ Shape(parsed.expr) =
                       <<"Unary", u1.type, <<"Unary", u2.type, VarShape(1)>>>>
        /\ ts = <<Operand(1), Tok("EQUAL", "="), Operand(2), Tok("EQUAL", "="),
                  Operand(3), Eof>> =>
                 /\ parsed.kind = "ok"
                 /\ parser.current = 5
                 /\ ~HAD_ERROR
                 /\ Shape(parsed.expr) = <<"Assign", "a", <<"Assign", "b", VarShape(3)>>>>

\* a - b + c was parsed, as (a - b) + c
C10_Witness ==
    /\ parsed # <<>>
    /\ parser.tokens = <<Operand(1), Tok("MINUS", "-"), Operand(2), Tok("PLUS", "+"),
                         Operand(3), Eof>>
    /\ parsed.kind = "ok"
    /\ Shape(parsed.expr) =
          <<"Binary", <<"Binary", VarShape(1), "MINUS", VarShape(2)>>, "PLUS", VarShape(3)>>

\* the binary operators, and how tightly each binds
BinaryOps == InfixOps \ AssignOps
Tightness(op) ==
    CASE op \in AssignOps -> 0
      [] op \in OrOps -> 1
      [] op \in AndOps -> 2
      [] op \in EqualityOps -> 3
      [] op \in ComparisonOps -> 4
      [] op \in TermOps -> 5
      [] op \in FactorOps -> 6

\* the shape of  l op r
Infix(op, l, r) ==
    IF op \in AssignOps
    THEN <<"Assign", IF l[1] = "Variable" THEN l[2] ELSE l, r>>
    ELSE <<NodeKind(op), l, op.type, r>>

\* the whole list was parsed without an error, into a node of this shape
ParsedAs(shape) ==
    /\ parsed.kind = "ok"
    /\ parser.current = Len(parser.tokens) - 1
    /\ ~HAD_ERROR
    /\ Shape(parsed.expr) = shape

\* the statement of C11 with assignment among the operators of the pairs:
\* for every hi tighter than lo, assignment included, a hi b lo c parses as
\* (a hi b) lo c and a lo b hi c parses as a lo (b hi c)
C11_EveryPair ==
    parsed # <<>> =>
        \A hi \in InfixOps, lo \in InfixOps :
            Tightness(hi) > Tightness(lo) =>
               /\ parser.tokens = <<Operand(1), hi, Operand(2), lo, Operand(3), Eof>> =>
                     ParsedAs(Infix(lo, Infix(hi, VarShape(1), VarShape(2)), VarShape(3)))
               /\ parser.tokens = <<Operand(1), lo, Operand(2), hi, Operand(3), Eof>> =>
                     ParsedAs(Infix(lo, VarShape(1), Infix(hi, VarShape(2), VarShape(3))))

\* C11: the binary operators bind in the order or, and, equality, comparison,
\* term, factor from loosest to tightest: for hi tighter than lo, a hi b lo c
\* parses as (a hi b) lo c and a lo b hi c as a lo (b hi c).  Assignment is
\* looser than all of them on its right: a = b hi c parses as a = (b hi c),
\* while a hi b = c reports "Invalid assignment target." and yields a hi b.
\* A unary operator on an operand of a binary operator binds to that operand
\* only: u1 a op u2 b parses as (u1 a) op (u2 b).
C11_Precedence ==
    parsed # <<>> =>
        /\ \A hi \in BinaryOps, lo \in BinaryOps :
              Tightness(hi) > Tightness(lo) =>
                 /\ parser.tokens = <<Operand(1), hi, Operand(2), lo, Operand(3), Eof>> =>
                       ParsedAs(Infix(lo, Infix(hi, VarShape(1), VarShape(2)),
                                      VarShape(3)))
                 /\ parser.tokens = <<Operand(1), lo, Operand(2), hi, Operand(3), Eof>> =>
                       ParsedAs(Infix(lo, VarShape(1),
                                      Infix(hi, VarShape(2), VarShape(3))))
        /\ \A hi \in BinaryOps, eq \in AssignOps :
              /\ parser.tokens = <<Operand(1), eq, Operand(2), hi, Operand(3), Eof>> =>
                    ParsedAs(<<"Assign", "a", Infix(hi, VarShape(2), VarShape(3))>>)
              /\ parser.tokens = <<Operand(1), hi, Operand(2), eq, Operand(3), Eof>> =>
                    /\ parsed.kind = "ok"
                    /\ parser.current = 5
                    /\ Shape(parsed.expr) = Infix(hi, VarShape(1), VarShape(2))
                    /\ HAD_ERROR
                    /\ Len(stderr) = 1
                    /\ stderr[1].message = "Invalid assignment target."
        /\ \A op \in BinaryOps, u1 \in PrefixOps, u2 \in PrefixOps :
              /\ parser.tokens = <<u1, Operand(1), op, u2, Operand(2), Eof>> =>
                    ParsedAs(Infix(op, <<"Unary", u1.type, VarShape(1)>>,
                                   <<"Unary", u2.type, VarShape(2)>>))
              /\ parser.tokens = <<u1, Operand(1), op, Operand(2), Eof>> =>
                    ParsedAs(Infix(op, <<"Unary", u1.type, VarShape(1)>>, VarShape(2)))
              /\ parser.tokens = <<Operand(1), op, u2, Operand(2), Eof>> =>
                    ParsedAs(Infix(op, VarShape(1), <<"Unary", u2.type, VarShape(2)>>))

\* a * b + c was parsed, as (a * b) + c
C11_Witness ==
    /\ parsed # <<>>
    /\ parser.tokens = <<Operand(1), Tok("STAR", "*"), Operand(2), Tok("PLUS", "+"),
                         Operand(3), Eof>>
    /\ ParsedAs(<<"Binary", <<"Binary", VarShape(1), "STAR", VarShape(2)>>, "PLUS",
                  VarShape(3)>>)

\* the shape of a call of callee with the operands i, i + 1, ... as arguments
CallShape(callee, i, n) == <<"Call", callee, [j \in 1..n |-> VarShape(i + j - 1)]>>

\* C12: for every n >= 0, the tokens of a ( e1 , ... , en ) parse without an
\* error into a Call node holding the callee a, the closing parenthesis and
\* exactly the n arguments in source order; a ( b ) ( c ) nests left to right.
C12_Call ==
    parsed # <<>> =>
        /\ \A n \in 0..MaxCallArguments :
              parser.tokens = CallTokens(n) \o <<Eof>> =>
                 /\ ParsedAs(CallShape(VarShape(1), 2, n))
                 /\ parsed.expr.paren = RightParen
        /\ parser.tokens = <<Operand(1), LeftParen, Operand(2), RightParen, LeftParen,
                             Operand(3), RightParen, Eof>> =>
                 ParsedAs(CallShape(CallShape(VarShape(1), 2, 1), 3, 1))

\* a call without arguments is parsed into a Call node: the one case of C12
\* that holds
C12_NoArguments ==
    /\ parsed # <<>>
    /\ parser.tokens = CallTokens(0) \o <<Eof>>
    /\ ParsedAs(CallShape(VarShape(1), 2, 0))

(***************************************************************************)
(* Claims about the scanner                                                *)
(***************************************************************************)
Newlines(source) == Cardinality({i \in DOMAIN source : source[i] = "\n"})

\* C7: for every source, with unexpected characters or an unterminated string
\* too, scan_tokens returns a list whose last element is an end-of-file token,
\* the only one of the list, on line 1 + the number of newlines of the source.
C7_EofLast ==
    scanpc = "returned" =>
        LET t == sc.tokens IN
        /\ Len(t) >= 1
        /\ t[Len(t)].type = "EOF"
        /\ \A i \in 1..(Len(t) - 1) : t[i].type # "EOF"
        /\ t[Len(t)].line = 1 + Newlines(sc.source)

\* an unterminated string holding a newline: an error was reported and the list
\* is the end-of-file token alone, on line 2
C7_Witness ==
    /\ scanpc = "returned"
    /\ HAD_ERROR
    /\ sc.source = <<"\"", "\n", "a">>
    /\ Len(sc.tokens) = 1
    /\ sc.tokens[1].line = 2

\* the keyword kind the language gives each reserved word
KindOf(w) ==
    CASE w = "and" -> "AND" [] w = "class" -> "CLASS" [] w = "else" -> "ELSE"
      [] w = "false" -> "FALSE" [] w = "fun" -> "FUN" [] w = "for" -> "FOR"
      [] w = "if" -> "IF" [] w = "nil" -> "NIL" [] w = "or" -> "OR"
      [] w = "print" -> "PRINT" [] w = "return" -> "RETURN"
      [] w = "super" -> "SUPER" [] w = "this" -> "THIS" [] w = "true" -> "TRUE"
      [] w = "var" -> "VAR" [] w = "while" -> "WHILE"

\* a letter or underscore followed by letters, digits or underscores
IsWord(cs) ==
    /\ cs # <<>>
    /\ is_alpha(cs[1])
    /\ \A i \in DOMAIN cs : is_alpha(cs[i]) \/ is_digit(cs[i])

\* C8: each of the sixteen reserved words scans to exactly one token of its own
\* keyword kind, and every other lexeme made of a letter or underscore followed
\* by letters, digits or underscores scans to exactly one identifier token.
C8_Keywords ==
    (scanpc = "returned" /\ IsWord(sc.source)) =>
        /\ Len(sc.tokens) = 2
        /\ sc.tokens[1].lexeme = Join(sc.source)
        /\ sc.tokens[1].type =
              IF sc.source \in ReservedWords THEN KindOf(Join(sc.source))
              ELSE "IDENTIFIER"

\* C9: scanning a space, a tab or a carriage return produces no token and
\* reports no error; scanning a newline produces no token, reports no error and
\* increments the line counter by one.
C9_Whitespace ==
    [][ (scanpc = "scanning" /\ ~is_at_end(sc)
         /\ sc.source[sc.current + 1] \in {" ", "\t", "\r", "\n"})
        => /\ sc'.tokens = sc.tokens
           /\ sc'.current = sc.current + 1
           /\ HAD_ERROR' = HAD_ERROR
           /\ stderr' = stderr
           /\ sc'.line = IF sc.source[sc.current + 1] = "\n"
                         THEN sc.line + 1 ELSE sc.line
      ]_vars

(***************************************************************************)
(* Claims about the driver                                                 *)
(***************************************************************************)
\* the compile-time errors reported since the current call of run began
CompileErrors ==
    IF runpc = "idle" THEN {}
    ELSE {i \in (job.stderr0 + 1)..Len(stderr) : "message" \in DOMAIN stderr[i]}

\* C2: in Plox.run, once the scanner, the parser or the resolver has reported a
\* compile-time error for the source, the compile-error flag is set and
\* Interpreter.interpret is not invoked for that source: no statement of it
\* has executed (the environments are those the call began with) and nothing
\* has been printed by it.
C2_NoInterpretAfterCompileError ==
    CompileErrors # {} =>
        /\ HAD_ERROR
        /\ ~job.interpreted
        /\ runpc # "resolved"
        /\ envs = job.heap0
        /\ stdout = job.stdout0

\* a call of run has returned after the resolver, the last stage before the
\* interpreter, reported an error for a source the scanner and the parser accept
C2_Witness ==
    /\ runpc = "returned"
    /\ job.stages = <<"scanner", "parser", "resolver">>
    /\ CompileErrors # {}
    /\ job.statements # <<>>
    /\ ~job.interpreted

\* stmt is `while (condition) body` with a body of these kinds
IsWhile(stmt, kinds) ==
    /\ stmt.k = "While"
    /\ IF Len(kinds) = 1 THEN stmt.body.k = kinds[1]
       ELSE /\ stmt.body.k = "Block"
            /\ [i \in DOMAIN stmt.body.statements |->
                   stmt.body.statements[i].k] = kinds

\* C13: a for statement is parsed into no for node but into the block
\* { init; while (cond) { body; incr; } }, with a literal true for an omitted
\* condition and without the parts that are omitted, which run can go on to
\* resolve and execute.
C13_ForDesugared ==
    (runpc # "idle" /\ job.source \in ForSources /\ "parser" \in
        {job.stages[i] : i \in DOMAIN job.stages}) =>
        /\ runpc = "raised" => job.interpreted
        /\ Len(job.statements) = 1
        /\ job.source = "for (;;) a = 1;" =>
              /\ IsWhile(job.statements[1], <<"Expression">>)
              /\ job.statements[1].condition.k = "Literal"
              /\ job.statements[1].condition.value = Bool(TRUE)
        /\ job.source = "for (var i = 0; i < 1; i = i + 1) a = i;" =>
              /\ job.statements[1].k = "Block"
              /\ Len(job.statements[1].statements) = 2
              /\ job.statements[1].statements[1].k = "Var"
              /\ IsWhile(job.statements[1].statements[2], <<"Expression", "Expression">>)
              /\ job.statements[1].statements[2].condition.k = "Binary"

\* what was reported since the current call of run began
ReportedByRun == SubSeq(stderr, job.stderr0 + 1, Len(stderr))

\* C14: after a parse error in a declaration, synchronise discards tokens until
\* it has just passed a `;` or the next token is one of the keywords class, fun,
\* var, for, if, while, print, return, or the end of the file, and parsing
\* resumes at that token: the error of a later declaration of the same source
\* is reported too, and each of the two declarations yields no statement.
C14_Synchronise ==
    (runpc # "idle" /\ job.source \in TwoErrorSources /\ Len(job.stages) >= 2) =>
        /\ runpc = "returned"
        /\ job.statements = <<NoStmt, NoStmt>>
        /\ Len(ReportedByRun) = 2
        /\ ReportedByRun[2].message = "Expect variable name."
        /\ ReportedByRun[2].where = " at ';'"

\* the case of C14 that holds: the error is at a `;`, which synchronise passes
C14_AtSemicolon ==
    (runpc # "idle" /\ job.source = "var ; var ;" /\ Len(job.stages) >= 2) =>
        /\ runpc = "returned"
        /\ job.statements = <<NoStmt, NoStmt>>
        /\ Len(ReportedByRun) = 2

\* the stages the current call of run has started
Started == IF runpc = "idle" THEN {} ELSE {job.stages[i] : i \in DOMAIN job.stages}

\* C24: when the scanner has reported a lexical error for a source, run does
\* not invoke the parser on the token list: the parser, like every later
\* stage, starts only if the compile-error flag is unset.
C24_NoParserAfterLexicalError ==
    (runpc # "idle" /\ scan_source(job.source).errs # <<>>) =>
        "parser" \notin Started

\* C22: in run_prompt, after each line has been run both the compile-error
\* flag and the runtime-error flag are false again when the next line is
\* awaited, and no error of the user's code ends the loop: no exception
\* leaves run_prompt, which returns only at the end of the input.
C22_PromptResets ==
    main.entry = "run_prompt" =>
        /\ (main.pc = "input" /\ main.ran > 0) =>
                (~HAD_ERROR /\ ~HAD_RUNTIME_ERROR)
        /\ main.pc # "raised"

\* the part of C22 about the compile-error flag
C22_CompileFlagReset ==
    (main.entry = "run_prompt" /\ main.pc = "input" /\ main.ran > 0) => ~HAD_ERROR

\* C23: run_file ends with exit code 65 when only the compile-error flag is
\* set after the run, with exit code 70 when the runtime-error flag is set,
\* also when both flags are set, and without an error exit when neither is.
C23_ExitCode ==
    (main.entry = "run_file" /\ main.pc \in {"exited", "returned"}) =>
        /\ HAD_RUNTIME_ERROR => main.pc = "exited" /\ main.exit = 70
        /\ (HAD_ERROR /\ ~HAD_RUNTIME_ERROR) => main.pc = "exited" /\ main.exit = 65
        /\ (~HAD_ERROR /\ ~HAD_RUNTIME_ERROR) =>
               main.pc = "returned" /\ main.exit = NoExit

\* the cases of C23 with at most one flag set
C23_OneFlag ==
    (main.entry = "run_file" /\ main.pc \in {"exited", "returned"}
        /\ ~(HAD_ERROR /\ HAD_RUNTIME_ERROR)) =>
        /\ HAD_RUNTIME_ERROR => main.pc = "exited" /\ main.exit = 70
        /\ HAD_ERROR => main.pc = "exited" /\ main.exit = 65
        /\ (~HAD_ERROR /\ ~HAD_RUNTIME_ERROR) =>
               main.pc = "returned" /\ main.exit = NoExit

(***************************************************************************)
(* Claims about the resolver                                               *)
(***************************************************************************)
\* the scopes that are open at a reference of level ref and declare the name
OpenScopes(ref, D) == D \cap (1..ref)

\* the side-table holds this depth for expression 1, and nothing else
Recorded(depth) == DOMAIN interp.locals = {1} /\ interp.locals[1] = depth

\* the number of scopes between the innermost one, of level ref, and the
\* nearest of the open scopes declaring the name is recorded for expression 1,
\* or nothing when no open scope declares it
RecordedDistance(ref, D) ==
    IF OpenScopes(ref, D) = {} THEN DOMAIN interp.locals = {}
    ELSE \E nearest \in OpenScopes(ref, D) :
            /\ \A l \in OpenScopes(ref, D) : l <= nearest
            /\ Recorded(ref - nearest)

\* C15: for the Variable, Assign and This expressions the resolver visits, the
\* depth recorded in the interpreter's side-table for the expression is the
\* number of scopes between the innermost open scope and the nearest open
\* scope declaring the name, and no entry is recorded when no open scope
\* declares it (a declaration at the top level opens no scope).
C15_ScopeDistance ==
    history # <<>> =>
        /\ ~history[1].crashed
        /\ \A ref \in 0..MaxScopes : \A D \in SUBSET (0..ref) :
              \A kind \in ReferenceKinds :
                 /\ program = BlockProgram(ref, D, kind) =>
                       RecordedDistance(ref, D) /\ ~HAD_ERROR
                 /\ (ref >= 1 /\ program = FunctionProgram(ref, D, kind)) =>
                       RecordedDistance(ref, D) /\ ~HAD_ERROR
        /\ \A ref \in 2..(MaxScopes + 1), method \in {"m", "init"} :
              program = ThisProgram(ref, method) => Recorded(ref - 1) /\ ~HAD_ERROR
        /\ \A ref \in 0..MaxScopes :
              program = BlockProgram(ref, {}, "This") => DOMAIN interp.locals = {}

\* { var a; var b; { var a; var b; { var b; a; } } } was resolved: a is bound
\* in two open scopes and the depth of the nearer one, 1, is recorded
C15_Witness ==
    /\ history # <<>>
    /\ program = BlockProgram(3, {1, 2}, "Variable")
    /\ Recorded(1)

\* the number of references an initialiser of InitialiserProgram(i) makes, in
\* a scope that is not the global one, to the variable it initialises
SelfReferences(i) ==
    CASE i \in {1, 5, 6, 9, 10} -> 1
      [] i \in {4, 7} -> 2
      [] i \in {2, 3, 8} -> 0

\* C16: a Variable expression naming the variable whose initialiser the
\* resolver is inside, in a scope that is not the global one, reports "Can't
\* read local variable in its own initializer."; the same reference at global
\* scope and references made after the variable is defined report nothing; the
\* error is reported without throwing, so the rest of the program is resolved
\* and its errors are reported too.
C16_OwnInitialiser ==
    history # <<>> =>
        \A i \in InitialiserPrograms :
            program = InitialiserProgram(i) =>
               /\ ~history[1].crashed
               /\ Len(stderr) = SelfReferences(i)
               /\ HAD_ERROR = (SelfReferences(i) > 0)
               /\ \A e \in DOMAIN stderr :
                     /\ stderr[e].message =
                           "Can't read local variable in its own initializer."
                     /\ stderr[e].where = IF e = 1 THEN " at 'a'" ELSE " at 'c'"
               /\ i = 10 => 3 \in DOMAIN interp.locals

\* { var a = a; var c = c; } was resolved and both errors were reported
C16_Witness ==
    /\ history # <<>>
    /\ program = InitialiserProgram(4)
    /\ Len(stderr) = 2
    /\ stderr[2].where = " at 'c'"

(***************************************************************************)
(* Claims about the values of expressions                                  *)
(***************************************************************************)
\* evaluate was called on the expression of the program
Evaluated == history # <<>> /\ history[1].op = "evaluate"

\* the program is  print l op r;  for one of these operators
IsBinary(types) ==
    program[1].expression.k = "Binary" /\ program[1].expression.operator.type \in types
LeftOperand == program[1].expression.left.value
RightOperand == program[1].expression.right.value
Operator == program[1].expression.operator.type

\* equality as C17 states it
SameValue(l, r) ==
    IF l = Nil \/ r = Nil THEN l = Nil /\ r = Nil
    ELSE /\ l.t = r.t
         /\ CASE l.t = "num" -> l.n = r.n
              [] l.t = "str" -> l.s = r.s
              [] l.t = "bool" -> l.n = r.n

RightResult(op, l, r, value) ==
    CASE op = "MINUS" -> value = Num(l.n - r.n)
      [] op = "PLUS" -> value = Num(l.n + r.n)
      [] op = "STAR" -> value = Num(l.n * r.n)
      [] op = "SLASH" -> value.t = "num" /\ (value.s = "" => value.n * r.n = l.n)
      [] op = "LESS" -> value = Bool(l.n < r.n)
      [] op = "LESS_EQUAL" -> value = Bool(l.n <= r.n)
      [] op = "GREATER" -> value = Bool(l.n > r.n)
      [] op = "GREATER_EQUAL" -> value = Bool(l.n >= r.n)

\* C18: a binary -, *, /, <, <=, >, >= raises a runtime error whenever an
\* operand is not a number, unary - whenever its operand is not a number, and +
\* unless both operands are numbers or both are strings; booleans never count
\* as numbers.  With two numbers the result of the operation is returned, with
\* two strings + returns their concatenation.
C18_OperandTypes ==
    Evaluated =>
        /\ IsBinary({"MINUS", "STAR", "SLASH", "LESS", "LESS_EQUAL", "GREATER",
                     "GREATER_EQUAL", "PLUS"}) =>
              IF LeftOperand.t = "num" /\ RightOperand.t = "num"
              THEN /\ history[1].kind = "ok"
                   /\ RightResult(Operator, LeftOperand, RightOperand, history[1].value)
              ELSE IF Operator = "PLUS" /\ LeftOperand.t = "str" /\ RightOperand.t = "str"
              THEN /\ history[1].kind = "ok"
                   /\ history[1].value = Str(LeftOperand.s \o RightOperand.s)
              ELSE history[1].kind = "err"
        /\ (program[1].expression.k = "Unary" /\ Operator = "MINUS") =>
              IF program[1].expression.right.value.t = "num"
              THEN /\ history[1].kind = "ok"
                   /\ history[1].value = Num(-program[1].expression.right.value.n)
              ELSE history[1].kind = "err"

\* the statement of C18 without the quotients by zero, which is what holds
C18_DivisorNotZero ==
    (IsBinary({"SLASH"}) /\ RightOperand = Num(0)) \/ C18_OperandTypes

\* C19: a / b for numbers a and b = 0 completes with a value, an infinity or
\* NaN: no runtime error is raised and no other failure aborts the evaluation
\* or leaves Interpreter.interpret.
C19_DivisionByZero ==
    (IsBinary({"SLASH"}) /\ LeftOperand.t = "num" /\ RightOperand = Num(0)) =>
        /\ Evaluated => history[1].kind = "ok" /\ history[1].value.t = "num"
        /\ \A i \in DOMAIN history :
              history[i].op = "interpret" =>
                 /\ history[i].kind = "ok"
                 /\ history[i].reported = <<>>
                 /\ Len(history[i].printed) = 1

(***************************************************************************)
(* Claims about calls                                                      *)
(***************************************************************************)
\* the result C20 gives the call g(argument) for the body b of g
ResultOf(b, is_initialiser, argument) ==
    IF is_initialiser THEN TheInstance
    ELSE CASE b \in {1, 3, 7, 9} -> Nil
           [] b = 2 -> Num(1)
           [] b = 4 -> Str("a")
           [] b = 5 -> Num(2)
           [] b = 6 -> IF argument = Num(0) THEN Num(0) ELSE Nil
           [] b = 8 -> Num(3)

\* C20: the result of calling a user function is the value carried by the
\* return statement that unwinds the body, nil when the body completes without
\* a return, and for an initialiser always the `this` bound in its closure; the
\* return never propagates past LoxFunction.call.
C20_CallResult ==
    \A b \in GBodies, is_initialiser \in BOOLEAN, argument \in Arguments :
        (/\ history # <<>>
         /\ program = CallProgram(argument)
         /\ envs[globals].values["g"].declaration = GDeclaration(b)
         /\ envs[globals].values["g"].is_initialiser = is_initialiser) =>
            \A i \in DOMAIN history :
               /\ history[i].kind = "ok"
               /\ history[i].op = "evaluate" =>
                     history[i].value = ResultOf(b, is_initialiser, argument)
               /\ history[i].op = "interpret" =>
                     /\ history[i].raised = "ok"
                     /\ history[i].printed =
                           <<stringify(ResultOf(b, is_initialiser, argument))>>

\* an initialiser whose body unwinds through a bare return was called: the
\* result is the instance its closure binds to this
C20_Witness ==
    /\ Evaluated
    /\ envs[globals].values["g"].declaration = GDeclaration(3)
    /\ envs[globals].values["g"].is_initialiser
    /\ history[1].kind = "ok"
    /\ history[1].value = TheInstance

(***************************************************************************)
(* Claims about the interpreter                                            *)
(***************************************************************************)
Interpreted == {i \in DOMAIN history : history[i].op = "interpret"}

\* C1: every call of execute_block (a block statement or the body of a user
\* function) leaves the interpreter's environment as it found it, however the
\* call ends (normal completion, runtime error, return); and after interpret
\* has caught a runtime error the environment is the one interpret started with.
C1_EnvironmentRestored ==
    /\ \A i \in Interpreted :
          /\ \A j \in DOMAIN history[i].blocks :
                history[i].blocks[j].after = history[i].blocks[j].previous
          /\ history[i].raised = "err" => history[i].after = history[i].before
    /\ interp # <<>> /\ Interpreted # {} =>
          LET e == history[Len(history)] IN
          e.raised = "err" => interp.environment = e.before

\* print f(1); { print f(0); } was interpreted: the blocks of the first call
\* were left by a return, those of the second by the runtime error, which
\* crossed a block in the body, the body and the block around the call
C1_Witness ==
    /\ Interpreted # {}
    /\ LET e == history[Len(history)]
           left_by(exit) == {j \in DOMAIN e.blocks : e.blocks[j].exit = exit}
       IN /\ e.op = "interpret" /\ e.raised = "err" /\ e.kind = "ok"
          /\ Cardinality(left_by("ret")) >= 2
          /\ Cardinality(left_by("err")) >= 3
          /\ Len(e.calls) = 2
          /\ \E j \in left_by("err") : e.blocks[j].previous # globals
          /\ interp.environment = globals

\* C3: when statement k of the list given to interpret raises a runtime error,
\* no statement after k is executed, the error is reported exactly once through
\* Plox.runtime_error, HAD_RUNTIME_ERROR becomes true, interpret returns
\* normally and HAD_ERROR is left as it was.
C3_RuntimeErrorStops ==
    [][(/\ Len(history') = Len(history) + 1
        /\ history'[Len(history')].op = "interpret"
        /\ history'[Len(history')].raised = "err")
       => LET e == history'[Len(history')] IN
          /\ e.failed \in 1..Len(program)
          /\ e.ran = [k \in 1..e.failed |-> k]
          /\ e.kind = "ok"
          /\ Len(stderr') = Len(stderr) + 1
          /\ stderr'[Len(stderr')].error # ""
          /\ HAD_RUNTIME_ERROR'
          /\ HAD_ERROR' = HAD_ERROR]_vars

\* the first of two statements raised a runtime error and the second was not
\* started
C3_Witness ==
    /\ Interpreted # {}
    /\ LET e == history[Len(history)] IN
       /\ e.op = "interpret" /\ e.raised = "err"
       /\ Len(program) = 2 /\ e.failed = 1 /\ e.ran = <<1>>
       /\ HAD_RUNTIME_ERROR
       /\ Len(stderr) = 1

\* C4: a function declaration binds its name to a function whose closure is the
\* environment current at the declaration, and a call of a user function runs
\* the body in a new environment whose enclosing environment is that closure,
\* not the caller's environment.
C4_Closure ==
    \A i \in Interpreted :
       /\ \A k \in DOMAIN history[i].ran :
             program[k].k = "Function" =>
                /\ history[i].failed # k
                /\ program[k].name.lexeme \in DOMAIN envs[history[i].before].values
                /\ LET f == envs[history[i].before].values[program[k].name.lexeme]
                   IN f.t = "function" /\ f.closure = history[i].before
       /\ \A c \in DOMAIN history[i].calls :
             envs[history[i].calls[c].environment].enclosing =
                history[i].calls[c].closure

(***************************************************************************)
(* Claims about PeekableTextIO                                             *)
(***************************************************************************)
\* the character of the text after the first n, or "" at its end
CharAfter(n) == IF n < Len(io.text) THEN io.text[n + 1] ELSE ""

ConstructedWith == interp.environment

\* the program refers to x, or assigns to it
Reads == program[1].expression.k = "Variable"
Writes == program[1].expression.k = "Assign"

\* C26: an Interpreter constructed with environment E, with no resolver pass
\* run, evaluates a Variable expression to the value E binds for the name, and
\* an Assign expression it evaluates updates the binding in E: E.get returns
\* the assigned value afterwards.
C26_ConstructedEnvironment ==
    (history # <<>> /\ interp.locals = <<>>
        /\ get(history[1].heap, ConstructedWith, "x").kind = "ok") =>
        /\ history[1].kind = "ok"
        /\ Reads => history[1].value = get(history[1].heap, ConstructedWith, "x").value
        /\ Writes => get(envs, ConstructedWith, "x") = Returned(Num(7))

\* the case of C26 that holds: the Interpreter is on the globals
C26_OnGlobals ==
    (history # <<>> /\ interp.locals = <<>> /\ ConstructedWith = globals
        /\ get(history[1].heap, ConstructedWith, "x").kind = "ok") =>
        /\ history[1].kind = "ok"
        /\ Reads => history[1].value = get(history[1].heap, ConstructedWith, "x").value
        /\ Writes => get(envs, ConstructedWith, "x") = Returned(Num(7))

RECURSIVE Up(_, _, _)
\* the environment d enclosing links above e
Up(h, e, d) == IF d = 0 THEN e ELSE Up(h, h[e].enclosing, d - 1)

\* the environment the recorded depth of expression 1 points at
Target == Up(history[1].heap, interp.environment, interp.locals[1])

TheCall == program[1].expression
CalleeKind == CHOOSE kind \in CalleeKinds : TheCall.callee = CalleeOf(kind)
ArgumentKind(i) ==
    CHOOSE kind \in ArgumentKinds : TheCall.arguments[i] = ArgumentOf(kind, i)

RECURSIVE Appended(_)
\* what the arguments from place i on append to s when evaluated left to right
Appended(i) ==
    IF i > Len(TheCall.arguments) THEN ""
    ELSE (IF ArgumentKind(i) = "append" THEN ToString(i) ELSE "") \o Appended(i + 1)

\* s after the callee and then the arguments have been evaluated
Evaluated_s == (IF CalleeKind = "string" THEN "c" ELSE "") \o Appended(1)

\* the value of the first argument of a call of h
FirstArgument ==
    CASE ArgumentKind(1) = "append" -> Str("1")
      [] ArgumentKind(1) = "literal" -> Num(0)
      [] ArgumentKind(1) = "clobber" -> Nil

\* the call failed with the message, after the callee and every argument were
\* evaluated, without a call environment and without entering a body
FailedWith(message) ==
    /\ history[1].kind = "err"
    /\ history[1].message = message
    /\ envs[globals].values["s"] = Str(Evaluated_s)
    /\ history[1].calls = <<>>
    /\ Len(envs) = Len(history[1].heap)

\* C28: a call evaluates the callee, then every argument from left to right,
\* then checks that the callee is callable ("Can only call functions and
\* classes."), then that the argument count is the arity ("Expected N
\* arguments but got M."), and only then invokes the callee; when a check
\* fails no body is entered and no call environment is made, but the effects
\* of evaluating the callee and the arguments are there.
C28_CallOrder ==
    history # <<>> =>
        LET n == Len(TheCall.arguments) IN
        /\ (\E i \in 1..n : ArgumentKind(i) = "clobber") <=>
               envs[globals].values["h"] = Nil
        /\ CASE CalleeKind \in {"nil", "number", "string"} ->
                    FailedWith("Can only call functions and classes.")
             [] CalleeKind = "clock" ->
                    IF n = 0
                    THEN history[1].kind = "ok" /\ history[1].calls = <<>>
                    ELSE FailedWith("Expected 0 arguments but got " \o ToString(n)
                                    \o ".")
             [] CalleeKind = "h" ->
                    IF n = 2
                    THEN /\ history[1].kind = "ok"
                         /\ history[1].value = FirstArgument
                         /\ Len(history[1].calls) = 1
                         /\ Len(envs) = Len(history[1].heap) + 1
                         /\ envs[globals].values["s"] = Str(Evaluated_s \o "b")
                    ELSE FailedWith("Expected 2 arguments but got " \o ToString(n)
                                    \o ".")

\* a call of h with three arguments that append to s has failed the arity
\* check after the three were evaluated
C28_Witness ==
    /\ history # <<>>
    /\ CalleeKind = "h"
    /\ history[1].kind = "err"
    /\ history[1].message = "Expected 2 arguments but got 3."
    /\ envs[globals].values["s"] = Str("123")

(***************************************************************************)
(* Claims about the parser's progress                                      *)
(***************************************************************************)
\* the cursor is at a token of the list
CursorInBounds == 0 <= parser.current /\ parser.current < Len(parser.tokens)

\* C29: parse terminates for every token list that ends with an end-of-file
\* token: each call of declaration() made while not at the end consumes at
\* least one token, by itself or in the synchronise() it ends in, and the
\* cursor stays at a token of the list.
C29_DeclarationProgress ==
    /\ CursorInBounds
    /\ parsed # <<>> => parser.current > parsed.before

\* the part of C29 that holds: the cursor stays in bounds, and every call of
\* declaration() that returns has consumed a token
C29_ReturnedProgress ==
    /\ CursorInBounds
    /\ (parsed # <<>> /\ parsed.kind = "ok") => parser.current > parsed.before

(***************************************************************************)
(* Claims about resolved lookups                                           *)
(***************************************************************************)
\* the resolver has accepted the program
Accepted ==
    /\ history # <<>>
    /\ history[1].op = "resolve"
    /\ ~history[1].crashed
    /\ ~HAD_ERROR

\* the calls of get_at and assign_at made by the calls of interpret
Lookups ==
    UNION {{history[i].lookups[j] : j \in DOMAIN history[i].lookups}
           : i \in {i \in DOMAIN history : history[i].op = "interpret"}}

RECURSIVE Chain(_)
\* a class followed by its superclasses, nearest first
Chain(klass) ==
    IF klass.superclass.t = "None" THEN <<klass>>
    ELSE <<klass>> \o Chain(klass.superclass)

\* the places in the chain of the instance's class of the classes with a method
Holders(name) ==
    {i \in 1..Len(Chain(inst.klass)) : name \in DOMAIN Chain(inst.klass)[i].methods}

\* the method of the nearest class that has one
NearestMethod(name) ==
    Chain(inst.klass)[CHOOSE i \in Holders(name) : \A j \in Holders(name) : i <= j]
        .methods[name]

\* C21: get(name) returns the instance's own field when there is one, even
\* if a class of the chain has a method of that name; otherwise the method of
\* the nearest class of the superclass chain that has one, as a new function
\* with the same declaration and initialiser flag whose closure is a new
\* environment that encloses the method's closure and binds only this, to the
\* instance; otherwise it raises "Undefined property '<name>'." and the
\* fields are as they were.
C21_Get ==
    inst.got.op = "get" =>
        LET g == inst.got
        IN IF g.name \in DOMAIN g.fields
           THEN /\ g.out = Returned(g.fields[g.name])
                /\ envs = g.heap
           ELSE IF Holders(g.name) # {}
           THEN /\ g.out.kind = "ok"
                /\ g.out.value.t = "function"
                /\ g.out.value.declaration = NearestMethod(g.name).declaration
                /\ g.out.value.is_initialiser = NearestMethod(g.name).is_initialiser
                /\ g.out.value.closure = Len(g.heap) + 1
                /\ Len(envs) = Len(g.heap) + 1
                /\ SubSeq(envs, 1, Len(g.heap)) = g.heap
                /\ envs[Len(envs)].enclosing = NearestMethod(g.name).closure
                /\ envs[Len(envs)].values = [this |-> inst.value]
                /\ inst.fields = g.fields
           ELSE /\ g.out = LoxRuntimeError("Undefined property '" \o g.name \o "'.")
                /\ inst.fields = g.fields
                /\ envs = g.heap

\* a get found a method that the instance's class lacks and two of its
\* superclasses have
C21_Inherited ==
    /\ inst.got.op = "get"
    /\ inst.got.name \notin DOMAIN inst.got.fields
    /\ 1 \notin Holders(inst.got.name)
    /\ Cardinality(Holders(inst.got.name)) = 2
    /\ inst.got.out.kind = "ok"

=========================================================================
